---- MODULE Spec2Model ----
(***************************************************************************)
(* Verification model of the hermes repository.                            *)
(*                                                                         *)
(*   SpecVector  - the vectorized backtest: BacktestEngine.run and the     *)
(*                 multi-timeframe path of BacktestService.run_backtest    *)
(*   SpecSink    - the data sinks (local, Cloudflare R2, Oracle)           *)
(*   SpecSync    - IngestOrchestrator.sync / fetch_symbol on the asyncio   *)
(*                 event loop                                              *)
(*   SpecResume  - resumed fetches against a shared sink                   *)
(*   SpecRate    - RateLimiter.wait of the Zerodha source                  *)
(*   SpecBus     - EventBus: subscribe, publish, process_next              *)
(*   SpecEngine  - EventEngine.run over a data iterator                    *)
(*   SpecZerodha - ZerodhaSource.fetch and its per-window retries          *)
(*   SpecScan    - ScannerService.scan                                     *)
(*   SpecCache   - MemoryCache: get, set, clear                            *)
(*   SpecData    - DataService.get_market_data with its cache              *)
(*   SpecLoad    - LocalFileProvider.load and DataLoader.load_data         *)
(*   SpecStrategies - generate_signals of the built-in strategies          *)
(*   SpecTrade   - the event loop with a strategy, the PortfolioManager    *)
(*                 and the VolumeAwareExecutionHandler                     *)
(*   SpecTradeFair - SpecTrade with the queue drained by process_all       *)
(*   SpecFill    - PortfolioManager.on_fill on any portfolio               *)
(*   SpecExec    - VolumeAwareExecutionHandler: on_bar and on_order        *)
(*   SpecPg      - PostgresCache: get and set                              *)
(*                                                                         *)
(* Every specification constrains all variables; the variables of the      *)
(* other subsystems stay at their initial values.                          *)
(***************************************************************************)
EXTENDS Integers, Sequences, FiniteSets, TLC

VARIABLES
    \* ---- vector backtest ----
    vpc,          \* "ready" | "engine_done" | "backtest_done"
    data,         \* input frame: [timestamp, close], 1-minute bars
    strategy,     \* [kind, at, sig]
    timeframe,    \* analysis timeframe in execution bars (1 = "1m")
    result,       \* outcome of the last run
    \* ---- data sink ----
    sinkKind,     \* "local" | "cloudflare_r2" | "oracle_object_storage"
    store,        \* stored frame per symbol; DOMAIN store = symbols that exist
    everTs,       \* per symbol, the timestamps of all chunks passed to write
    \* ---- IngestOrchestrator.sync ----
    spc,            \* "idle" | "init" | "scope" | "returned" | "raised"
    ctx,            \* the `async with IngestOrchestrator(...)` block of the
                    \* caller: "none" | "inside" | "exited"
    listed,         \* what source.list_instruments() returns
    instruments_df, \* rows [tradingsymbol, instrument_token] sync works on
    symbolsArg,     \* sync(symbols=...): a set, {} for None
    limitArg,       \* sync(limit=...): <<>> for None, <<L>> otherwise
    concurrency,    \* sync(concurrency=...)
    task,           \* per created task: [pc, log, ret, exc]
    sem,            \* value of the asyncio.Semaphore
    results,        \* the results dict of sync
    closeCalls,     \* number of source.close() invocations
    closeWhileBusy, \* some close() ran while a per-symbol task was unfinished
    \* ---- fetch_symbol with resume, one symbol, run after run ----
    rpc,            \* "idle" | "ready" | "fetching"
    today,          \* datetime.now() as a day number
    sourceDays,     \* the days for which the source has bars
    chunk_days,     \* settings.chunk_days
    end_date,       \* end_date of the latest fetch_symbol call
    resumed,        \* the latest call started from the stored last timestamp
    pending,        \* windows the stream of the running call still yields
    runs,           \* completed fetch_symbol calls
    \* ---- RateLimiter; tokens are counted in half tokens, time in ticks,
    \*      one tick being the time in which half a token is refilled ----
    rmode,          \* "idle" | "free" (calls at any time) | "burst" (all at once)
    max_tokens,     \* self.max_tokens = self.rate_limit
    tokens,         \* self.tokens
    updated_at,     \* self.updated_at
    lock,           \* self.lock: "free" | "sleeping" (the holder sleeps in wait)
    wake_at,        \* when the sleeping holder wakes
    now,            \* time.monotonic()
    queued,         \* wait() calls queued on the lock
    issued,         \* wait() calls made so far
    completions,    \* the times at which wait() calls returned, in order
    \* ---- EventBus and EventEngine ----
    epc,            \* "idle" | "bus" (the bus used directly) | "setup" | "pull" |
                    \* "drain" | "returned" (EventEngine.run)
    _listeners,     \* per event type, the listeners in subscription order
    _queue,         \* queued events [type, id, bar, cause]: id numbers the
                    \* events in publish order, cause is the id of the event
                    \* whose listener published it (0: published from outside)
                    \* and bar the source event it goes back to
    continue_backtest,
    source,         \* number of MarketEvents the data iterator yields
    pulled,         \* source events pulled so far
    published,      \* every event published so far, in publish order
    handled,        \* ids of the events process_next removed, in order
    calls,          \* listener calls made, in order: [listener, pos, id]
    \* ---- ZerodhaSource.fetch; dates are day numbers ----
    zpc,            \* "idle" | "loop" | "returned"
    start_dt,
    end_dt,
    fetch_chunk_days, \* self._settings.chunk_days
    current_dt,
    attempt,        \* loop variable of _fetch_chunk for the current window
    all_candles,    \* the days whose candles were collected, in order
    chunkLog,       \* per finished _fetch_chunk call: [from, to, outcome]
    fetch_result,   \* what fetch returned: <<>> for None, <<days>> for a frame
    rate_waits,     \* rate_limiter.wait() calls completed in the running _fetch_chunk
    answers,        \* the answers the running _fetch_chunk call got so far
    \* ---- ScannerService.scan ----
    scpc,           \* "idle" | "called" | "gather" | "returned" | "raised"
    scan_request,   \* [strategy_known, symbols, max_concurrency]
    scan_instruments, \* what market_data_service.list_instruments() returns
    has_db,         \* self._db is not None
    scan_now,       \* datetime.utcnow(), in hours
    cache_read_failed, \* the query of _get_cached_results raised
    cacheRows,      \* rows of scan_results for the strategy and params_hash
                    \* of the request: symbol -> [metrics, expires_at, status]
    scan_symbols,
    cached_results,
    symbols_to_compute,
    taskState,      \* per _backtest_symbol task: "waiting" | "running" | "done"
    fresh_results,  \* per task: <<>> until it returns, then <<ScanResult>>
    response,       \* <<>> until scan returns, then <<ScanResponse>>
    \* ---- MemoryCache ----
    cpc,            \* "idle" | "ready"
    max_size_mb,
    _cache,         \* the OrderedDict, oldest first: sequence of [key, data]
    _sizes,         \* key -> size
    _current_size_mb,
    _hits,
    _misses,
    used,           \* keys held, by last use: hit in get, or any set call
    usedStored,     \* keys held, by last use: hit in get, or set that stored
    lastOp,         \* the last call made and what it did
    \* ---- DataService.get_market_data ----
    dpc,            \* "idle" | "called" | "load" | "returned" | "raised"
    use_cache,
    cacheKind,      \* self.cache: "none" | "memory" | "postgres"
    cacheEntry,     \* what the cache holds under the key: <<>> or <<frame>>
    providerData,   \* what provider.load gives: <<>> when it raises, else <<frame>>
    returned,       \* what get_market_data returned
    cacheFault,     \* the failure met inside the cache: "none" | "get" | "set"
    loadLog,        \* the _log_load calls: [cache_hit, status, rows]
    \* ---- LocalFileProvider.load and DataLoader.load_data ----
    lpc,            \* "idle" | "file" | "loaded"
    loaderKind,     \* "LocalFileProvider" | "DataLoader"
    fileExists,     \* <symbol>.parquet exists
    fileRows,       \* the rows of the parquet file: [open, high, low, close]
    loadResult,     \* <<>> when the load raised, else <<frame>>
    \* ---- PortfolioManager, VolumeAwareExecutionHandler and a strategy on one bus ----
    tpc,               \* "idle" | "run" (EventEngine.run over the bars)
    trade_params,      \* [strategy, period, strategy_first, initial_cash, sizing_method]
    bus_queue,         \* the bus queue: events [type, kind, quantity, price, commission, volume]
    bars,              \* MarketEvents pulled from the data iterator so far
    cash,              \* PortfolioManager.cash
    holding,           \* the Position of the symbol: [quantity, avg_entry_price, realized_pnl]
    last_prices,       \* PortfolioManager.last_prices[symbol]: <<>> until the first bar
    exec_last,         \* the handler's [last_price, last_volume]
    rsi_strategy,      \* RSIStrategy: [last_close, gains_len, avg_gain, avg_loss, scale,
                       \* initialized, flag]; the averages are kept times scale
    bought,            \* summed quantity of the BUY fills
    sold,              \* summed quantity of the SELL fills
    \* the event process_next handled last, the portfolio before it, and what
    \* the portfolio published while handling it
    last_dispatch,
    \* ---- PortfolioManager.on_fill called on any portfolio ----
    fpc,               \* "idle" | "ready" | "filled"
    fill_event,        \* the FillEvent and its symbol: [symbol, event]
    fill_cash,         \* PortfolioManager.cash
    fill_positions,    \* PortfolioManager.positions: symbol -> Position, where present
    fill_before,       \* the cash and the positions before on_fill ran
    \* ---- VolumeAwareExecutionHandler on its own ----
    xpc,               \* "idle" | "ready"
    handler,           \* the handler: [slippage, last_price, last_volume, last_high,
                       \* last_low, total_orders, total_fills, total_partial_fills,
                       \* total_rejected]; slippage in percent
    order_seen,        \* <<>> or <<order>>: the order of the latest on_order call
    fill_out,          \* <<>> or <<fill>>: what that call published
    exec_calls,        \* handler calls made so far
    \* ---- PostgresCache ----
    pgpc,              \* "idle" | "ready"
    pg_max,            \* PostgresCache.max_size_mb
    pg_rows,           \* table dataframe_cache: cache_key -> row
    pg_clock,          \* datetime.now(timezone.utc), in hours
    pg_hits,           \* PostgresCache._hits
    pg_misses,         \* PostgresCache._misses
    pg_calls,          \* calls of get and set made so far
    pg_last            \* the last call: arguments, result, table before it

vectorVars == <<vpc, data, strategy, timeframe, result>>
sinkVars == <<sinkKind, store, everTs>>

syncVars == <<spc, ctx, listed, instruments_df, symbolsArg, limitArg, concurrency, task,
              sem, results, closeCalls, closeWhileBusy>>

resumeVars == <<rpc, today, sourceDays, chunk_days, end_date, resumed, pending, runs>>

\* ---- token-bucket RateLimiter ----
rateVars == <<rmode, max_tokens, tokens, updated_at, lock, wake_at, now, queued, issued,
              completions>>

\* ---- EventBus / EventEngine ----
eventVars == <<epc, _listeners, _queue, continue_backtest, source, pulled, published,
               handled, calls>>

\* ---- ZerodhaSource.fetch ----
zerodhaVars == <<zpc, start_dt, end_dt, fetch_chunk_days, current_dt, attempt,
                 all_candles, chunkLog, fetch_result, rate_waits, answers>>

\* ---- ScannerService.scan ----
scanVars == <<scpc, scan_request, scan_instruments, has_db, scan_now,
              cache_read_failed, cacheRows, scan_symbols,
              cached_results, symbols_to_compute, taskState, fresh_results, response>>

\* ---- MemoryCache ----
cacheVars == <<cpc, max_size_mb, _cache, _sizes, _current_size_mb, _hits, _misses,
               used, usedStored, lastOp>>

\* ---- DataService.get_market_data ----
dataVars == <<dpc, use_cache, cacheKind, cacheEntry, providerData, returned, cacheFault,
              loadLog>>

\* ---- LocalFileProvider.load and DataLoader.load_data ----
loadVars == <<lpc, loaderKind, fileExists, fileRows, loadResult>>

\* ---- PortfolioManager, VolumeAwareExecutionHandler and a strategy on one bus ----
tradeVars == <<tpc, trade_params, bus_queue, bars, cash, holding, last_prices,
               exec_last,
               rsi_strategy, bought, sold, last_dispatch>>

\* ---- PortfolioManager.on_fill called on any portfolio ----
fillVars == <<fpc, fill_event, fill_cash, fill_positions, fill_before>>

\* ---- VolumeAwareExecutionHandler on its own ----
execVars == <<xpc, handler, order_seen, fill_out, exec_calls>>

\* ---- PostgresCache ----
pgVars == <<pgpc, pg_max, pg_rows, pg_clock, pg_hits, pg_misses, pg_calls, pg_last>>

laterVars == <<rateVars, eventVars, zerodhaVars, scanVars, cacheVars, dataVars, loadVars,
    tradeVars, fillVars, execVars, pgVars>>

\* everything but the variables of one subsystem
notRateVars == <<vectorVars, sinkVars, syncVars, resumeVars, eventVars, zerodhaVars,
    scanVars, cacheVars, dataVars, loadVars, tradeVars, fillVars, execVars, pgVars>>
notEventVars == <<vectorVars, sinkVars, syncVars, resumeVars, rateVars, zerodhaVars,
    scanVars, cacheVars, dataVars, loadVars, tradeVars, fillVars, execVars, pgVars>>
notZerodhaVars == <<vectorVars, sinkVars, syncVars, resumeVars, rateVars, eventVars,
    scanVars, cacheVars, dataVars, loadVars, tradeVars, fillVars, execVars, pgVars>>
notScanVars == <<vectorVars, sinkVars, syncVars, resumeVars, rateVars, eventVars,
    zerodhaVars, cacheVars, dataVars, loadVars, tradeVars, fillVars, execVars, pgVars>>
notCacheVars == <<vectorVars, sinkVars, syncVars, resumeVars, rateVars, eventVars,
    zerodhaVars, scanVars, dataVars, loadVars, tradeVars, fillVars, execVars, pgVars>>
notDataVars == <<vectorVars, sinkVars, syncVars, resumeVars, rateVars, eventVars,
    zerodhaVars, scanVars, cacheVars, loadVars, tradeVars, fillVars, execVars, pgVars>>
notLoadVars == <<vectorVars, sinkVars, syncVars, resumeVars, rateVars, eventVars,
    zerodhaVars, scanVars, cacheVars, dataVars, tradeVars, fillVars, execVars, pgVars>>
notTradeVars == <<vectorVars, sinkVars, syncVars, resumeVars, rateVars, eventVars,
    zerodhaVars, scanVars, cacheVars, dataVars, loadVars, fillVars, execVars, pgVars>>
notFillVars == <<vectorVars, sinkVars, syncVars, resumeVars, rateVars, eventVars,
    zerodhaVars, scanVars, cacheVars, dataVars, loadVars, tradeVars, execVars, pgVars>>
notExecVars == <<vectorVars, sinkVars, syncVars, resumeVars, rateVars, eventVars,
    zerodhaVars, scanVars, cacheVars, dataVars, loadVars, tradeVars, fillVars, pgVars>>
notPgVars == <<vectorVars, sinkVars, syncVars, resumeVars, rateVars, eventVars,
    zerodhaVars, scanVars, cacheVars, dataVars, loadVars, tradeVars, fillVars, execVars>>

vars == <<vectorVars, sinkVars, syncVars, resumeVars, laterVars>>

(***************************************************************************)
(* Bounds                                                                  *)
(***************************************************************************)
MaxBars == 5          \* longest input frame
MaxTf == 2            \* largest analysis timeframe, in execution bars
MaxTs == 3            \* timestamps of stored rows are 1..MaxTs
MaxChunkRows == 2     \* longest chunk passed to a single write
MaxInstruments == 2   \* rows of the instrument table
MaxConcurrency == 2   \* largest concurrency passed to sync
MaxChunks == 2        \* items a stream yields before it ends, one task running
MaxChunksShared == 1  \* the same, when several tasks share the event loop
MaxDay == 3           \* last day on the calendar; day 0 is settings.start_date
BarsPerDay == 2       \* bars the source has for a trading day
MaxChunkDays == 2     \* largest settings.chunk_days
MaxRuns == 3          \* fetch_symbol calls made one after another
MaxNow == 6           \* ticks the clock runs when calls come at any time
MaxCalls == 5         \* wait() calls made when calls come at any time
MaxEvents == 4        \* events published on one bus
MaxSubs == 2          \* subscriptions made on one bus
MaxSource == 2        \* MarketEvents the data iterator yields
MaxRequested == 2     \* symbols listed in a scan request
MaxCachedRows == 1    \* scan_results rows for the strategy and params_hash of a scan
MaxCacheMb == 2       \* max_size_mb of a MemoryCache
MaxFrameMb == 3       \* estimated size of a frame given to MemoryCache.set
MaxLookups == 1       \* MemoryCache.get calls
MaxFrameRows == 2     \* rows of a frame held by the provider or the cache
MaxLoadRows == 2      \* rows of a parquet file that is loaded
MaxEventBars == 3       \* bars the data iterator yields to an RSI strategy
MaxScriptedBars == 2    \* bars the data iterator yields to a scripted strategy
MaxFillQty == 2         \* largest quantity of a fill and of a position held
MaxExecCalls == 3       \* on_bar and on_order calls made on one handler
MaxPgCalls == 3         \* calls of PostgresCache.get and set in one run

(***************************************************************************)
(* The state of each subsystem before it is used                           *)
(***************************************************************************)
Symbols == {"A", "B"}

NoResult == [ok |-> FALSE, timestamp |-> <<>>, close |-> <<>>, signal |-> <<>>,
             market_return |-> <<>>, position |-> <<>>, strategy_return |-> <<>>]

VectorIdle ==
    /\ vpc = "idle"
    /\ data = [timestamp |-> <<>>, close |-> <<>>, signal |-> <<>>,
               hasSignal |-> FALSE, raised |-> FALSE]
    /\ strategy = [kind |-> "nosignal", at |-> 0, sig |-> <<>>]
    /\ timeframe = 1 /\ result = NoResult

SinkIdle ==
    /\ sinkKind = "local"
    /\ store = <<>>
    /\ everTs = [s \in Symbols |-> {}]

SyncIdle ==
    /\ spc = "idle" /\ ctx = "none"
    /\ listed = <<>> /\ instruments_df = <<>> /\ symbolsArg = {} /\ limitArg = <<>>
    /\ concurrency = 1 /\ task = <<>> /\ sem = 0 /\ results = <<>>
    /\ closeCalls = 0 /\ closeWhileBusy = FALSE

ResumeIdle ==
    /\ rpc = "idle" /\ today = 0 /\ sourceDays = {} /\ chunk_days = 1
    /\ end_date = 0 /\ resumed = FALSE /\ pending = <<>> /\ runs = 0

RateIdle ==
    /\ rmode = "idle" /\ max_tokens = 0 /\ tokens = 0 /\ updated_at = 0
    /\ lock = "free" /\ wake_at = 0 /\ now = 0 /\ queued = 0 /\ issued = 0
    /\ completions = <<>>

EventTypes == {"MarketEvent", "OrderEvent"}

EventIdle ==
    /\ epc = "idle" /\ _listeners = [ty \in EventTypes |-> <<>>] /\ _queue = <<>>
    /\ continue_backtest = TRUE /\ source = 0 /\ pulled = 0
    /\ published = <<>> /\ handled = <<>> /\ calls = <<>>

ZerodhaIdle ==
    /\ zpc = "idle" /\ start_dt = 0 /\ end_dt = 0 /\ fetch_chunk_days = 1
    /\ current_dt = 0 /\ attempt = 0 /\ all_candles = <<>> /\ chunkLog = <<>>
    /\ fetch_result = <<>> /\ rate_waits = 0 /\ answers = <<>>

ScanIdle ==
    /\ scpc = "idle"
    /\ scan_request = [strategy_known |-> TRUE, symbols |-> <<>>, max_concurrency |-> 1]
    /\ scan_instruments = <<>> /\ has_db = FALSE /\ cacheRows = <<>>
    /\ scan_now = 0 /\ cache_read_failed = FALSE
    /\ scan_symbols = <<>> /\ cached_results = <<>> /\ symbols_to_compute = <<>>
    /\ taskState = <<>> /\ fresh_results = <<>> /\ response = <<>>

NoOp ==
    [op |-> "none", symbols |-> <<>>, key |-> <<>>, data |-> <<>>, returned |-> <<>>,
     evicted |-> <<>>, lru |-> <<>>, lruStored |-> <<>>, prevSet |-> <<>>]

CacheIdle ==
    /\ cpc = "idle" /\ max_size_mb = 0 /\ _cache = <<>> /\ _sizes = <<>>
    /\ _current_size_mb = 0 /\ _hits = 0 /\ _misses = 0
    /\ used = <<>> /\ usedStored = <<>> /\ lastOp = NoOp

DataIdle ==
    /\ dpc = "idle" /\ use_cache = FALSE /\ cacheKind = "none" /\ cacheEntry = <<>>
    /\ providerData = <<>> /\ returned = <<>> /\ cacheFault = "none" /\ loadLog = <<>>

LoadIdle ==
    /\ lpc = "idle" /\ loaderKind = "LocalFileProvider" /\ fileExists = FALSE
    /\ fileRows = <<>> /\ loadResult = <<>>

NoEvent == [type |-> "none", kind |-> "", quantity |-> 0, price |-> 0,
            commission |-> 0, volume |-> 0]

FlatPosition == [quantity |-> 0, avg_entry_price |-> 0, realized_pnl |-> 0]

NewStrategy == [last_close |-> <<>>, gains_len |-> 0, avg_gain |-> 0, avg_loss |-> 0,
                scale |-> 1, initialized |-> FALSE, flag |-> 0]

NoDispatch == [event |-> NoEvent, cash |-> 0, position |-> FlatPosition, published |-> <<>>]

TradeIdle ==
    /\ tpc = "idle" /\ trade_params = <<>> /\ bus_queue = <<>> /\ bars = 0 /\ cash = 0
    /\ holding = FlatPosition /\ last_prices = <<>>
    /\ exec_last = [last_price |-> 0, last_volume |-> 0]
    /\ rsi_strategy = NewStrategy /\ bought = 0 /\ sold = 0 /\ last_dispatch = NoDispatch

FillIdle ==
    /\ fpc = "idle" /\ fill_event = <<>> /\ fill_cash = 0 /\ fill_positions = <<>>
    /\ fill_before = <<>>

NewHandler ==
    [slippage |-> 0, last_price |-> 0, last_volume |-> 0, last_high |-> 0, last_low |-> 0,
     total_orders |-> 0, total_fills |-> 0, total_partial_fills |-> 0,
     total_rejected |-> 0]

ExecIdle ==
    /\ xpc = "idle" /\ handler = NewHandler /\ order_seen = <<>> /\ fill_out = <<>>
    /\ exec_calls = 0

PgIdle ==
    /\ pgpc = "idle" /\ pg_max = 0 /\ pg_rows = <<>> /\ pg_clock = 0
    /\ pg_hits = 0 /\ pg_misses = 0 /\ pg_calls = 0 /\ pg_last = <<>>

LaterIdle == RateIdle /\ EventIdle /\ ZerodhaIdle /\ ScanIdle /\ CacheIdle /\ DataIdle /\
    LoadIdle /\ TradeIdle /\ FillIdle /\ ExecIdle /\ PgIdle

OldIdle == VectorIdle /\ SinkIdle /\ SyncIdle /\ ResumeIdle
NotRateIdle == OldIdle /\ EventIdle /\ ZerodhaIdle /\ ScanIdle /\ CacheIdle /\
    DataIdle /\ LoadIdle /\ TradeIdle /\ FillIdle /\ ExecIdle /\ PgIdle
NotEventIdle == OldIdle /\ RateIdle /\ ZerodhaIdle /\ ScanIdle /\ CacheIdle /\
    DataIdle /\ LoadIdle /\ TradeIdle /\ FillIdle /\ ExecIdle /\ PgIdle
NotZerodhaIdle == OldIdle /\ RateIdle /\ EventIdle /\ ScanIdle /\ CacheIdle /\
    DataIdle /\ LoadIdle /\ TradeIdle /\ FillIdle /\ ExecIdle /\ PgIdle
NotScanIdle == OldIdle /\ RateIdle /\ EventIdle /\ ZerodhaIdle /\ CacheIdle /\
    DataIdle /\ LoadIdle /\ TradeIdle /\ FillIdle /\ ExecIdle /\ PgIdle
NotCacheIdle == OldIdle /\ RateIdle /\ EventIdle /\ ZerodhaIdle /\ ScanIdle /\
    DataIdle /\ LoadIdle /\ TradeIdle /\ FillIdle /\ ExecIdle /\ PgIdle
NotDataIdle == OldIdle /\ RateIdle /\ EventIdle /\ ZerodhaIdle /\ ScanIdle /\
    CacheIdle /\ LoadIdle /\ TradeIdle /\ FillIdle /\ ExecIdle /\ PgIdle
NotLoadIdle == OldIdle /\ RateIdle /\ EventIdle /\ ZerodhaIdle /\ ScanIdle /\
    CacheIdle /\ DataIdle /\ TradeIdle /\ FillIdle /\ ExecIdle /\ PgIdle
NotTradeIdle == OldIdle /\ RateIdle /\ EventIdle /\ ZerodhaIdle /\ ScanIdle /\
    CacheIdle /\ DataIdle /\ LoadIdle /\ FillIdle /\ ExecIdle /\ PgIdle
NotFillIdle == OldIdle /\ RateIdle /\ EventIdle /\ ZerodhaIdle /\ ScanIdle /\
    CacheIdle /\ DataIdle /\ LoadIdle /\ TradeIdle /\ ExecIdle /\ PgIdle
NotExecIdle == OldIdle /\ RateIdle /\ EventIdle /\ ZerodhaIdle /\ ScanIdle /\
    CacheIdle /\ DataIdle /\ LoadIdle /\ TradeIdle /\ FillIdle /\ PgIdle
NotPgIdle == OldIdle /\ RateIdle /\ EventIdle /\ ZerodhaIdle /\ ScanIdle /\ CacheIdle /\
    DataIdle /\ LoadIdle /\ TradeIdle /\ FillIdle /\ ExecIdle

(***************************************************************************)
(* Columns.  A nullable cell is <<>> (null) or <<v>>.                      *)
(***************************************************************************)
Null == <<>>
Some(v) == <<v>>

RECURSIVE SeqsUpTo(_, _)
SeqsUpTo(S, n) ==
    IF n = 0 THEN {<<>>}
    ELSE LET shorter == SeqsUpTo(S, n - 1)
         IN shorter \cup {Append(s, x) : s \in {q \in shorter : Len(q) = n - 1}, x \in S}

\* polars Expr.shift(1): every value moves one row down, row 0 becomes null
Shift1(col) ==
    [i \in 1..Len(col) |-> IF i = 1 THEN Null ELSE col[i - 1]]

\* polars Expr.fill_null(d) on a nullable column
FillNull(col, d) ==
    [i \in 1..Len(col) |-> IF col[i] = Null THEN d ELSE col[i][1]]

(***************************************************************************)
(* Strategies (vector mode).  generate_signals returns the input frame     *)
(* with a signal column added or replaced (DataFrame.with_columns).        *)
(***************************************************************************)
Threshold == 100

\* MockStrategy: signal = 1 iff close > 100
ThresholdSignal(df) ==
    [i \in 1..Len(df.close) |-> Some(IF df.close[i] > Threshold THEN 1 ELSE 0)]

\* SingleSignalStrategy: signal = 1 only on the row whose timestamp is p
AtTimestampSignal(p, df) ==
    [i \in 1..Len(df.close) |-> Some(IF df.timestamp[i] = p THEN 1 ELSE 0)]

\* PulseSignalStrategy: a fixed series; polars rejects a series whose length
\* differs from the frame's
GenerateSignals(strat, df) ==
    CASE strat.kind = "threshold" ->
            [df EXCEPT !.signal = ThresholdSignal(df), !.hasSignal = TRUE]
      [] strat.kind = "at_timestamp" ->
            [df EXCEPT !.signal = AtTimestampSignal(strat.at, df), !.hasSignal = TRUE]
      [] strat.kind = "table" ->
            IF Len(strat.sig) = Len(df.close)
            THEN [df EXCEPT !.signal = strat.sig, !.hasSignal = TRUE]
            ELSE [df EXCEPT !.raised = TRUE]
      [] OTHER -> df     \* a strategy that adds no signal column

(***************************************************************************)
(* BacktestEngine.run                                                      *)
(***************************************************************************)
\* close / close.shift(1) - 1 with null -> 0, kept exact as <<num, den>>
MarketReturn(close) ==
    [i \in 1..Len(close) |->
        IF i = 1 THEN <<0, 1>> ELSE <<close[i] - close[i - 1], close[i - 1]>>]

PositionColumnNoShift(signal) == FillNull(signal, 0)

\* pl.col("signal").shift(1).fill_null(0)
PositionColumn(signal) == FillNull(Shift1(signal), 0)

StrategyReturn(position, market_return) ==
    [i \in 1..Len(position) |->
        <<position[i] * market_return[i][1], market_return[i][2]>>]

EngineRun(strat, frame) ==
    LET df == GenerateSignals(strat, frame)
    IN IF df.raised \/ ~df.hasSignal
       THEN [ok |-> FALSE, timestamp |-> <<>>, close |-> <<>>, signal |-> <<>>,
             market_return |-> <<>>, position |-> <<>>, strategy_return |-> <<>>]
       ELSE LET mr  == MarketReturn(df.close)
                pos == PositionColumn(df.signal)
            IN [ok |-> TRUE, timestamp |-> df.timestamp, close |-> df.close,
                signal |-> df.signal, market_return |-> mr, position |-> pos,
                strategy_return |-> StrategyReturn(pos, mr)]

(***************************************************************************)
(* Multi-timeframe path of BacktestService.run_backtest                    *)
(***************************************************************************)
BarLabel(t, tf) == (t \div tf) * tf

\* group_by_dynamic(every = tf): one row per non-empty window, close = last
ResampleData(df, tf) ==
    LET n      == Len(df.close)
        labels == {BarLabel(df.timestamp[i], tf) : i \in 1..n}
        LabelAt(k) == CHOOSE l \in labels : Cardinality({m \in labels : m < l}) = k - 1
        LastRow(l) == CHOOSE i \in 1..n :
                         /\ BarLabel(df.timestamp[i], tf) = l
                         /\ \A j \in 1..n : BarLabel(df.timestamp[j], tf) = l => j <= i
    IN [timestamp |-> [k \in 1..Cardinality(labels) |-> LabelAt(k)],
        close     |-> [k \in 1..Cardinality(labels) |-> df.close[LastRow(LabelAt(k))]],
        signal    |-> [k \in 1..Cardinality(labels) |-> Null],
        hasSignal |-> FALSE, raised |-> FALSE]

\* join_asof(strategy = "backward"): latest right row with timestamp <= t
JoinAsofBackward(left, right) ==
    LET Cands(t) == {k \in 1..Len(right.timestamp) : right.timestamp[k] <= t}
        Latest(t) == CHOOSE k \in Cands(t) : \A j \in Cands(t) : j <= k
    IN [left EXCEPT
          !.signal = [i \in 1..Len(left.close) |->
                        IF Cands(left.timestamp[i]) = {} THEN Null
                        ELSE right.signal[Latest(left.timestamp[i])]],
          !.hasSignal = right.hasSignal,
          !.raised = right.raised]

\* the execution frame handed to the engine
ExecutionFrame(strat, df, tf) ==
    LET analysis_df == IF tf # 1 THEN ResampleData(df, tf) ELSE df
        strategy_result_df == GenerateSignals(strat, analysis_df)
        shifted_strategy ==
            [strategy_result_df EXCEPT !.signal = Shift1(strategy_result_df.signal)]
    IN IF tf # 1 THEN JoinAsofBackward(df, shifted_strategy)
       ELSE strategy_result_df

RunBacktest(strat, df, tf) == EngineRun(strat, ExecutionFrame(strat, df, tf))

\* _format_response: rows where position differs from the previous row
Trades(res) ==
    LET prev == FillNull(Shift1([i \in 1..Len(res.position) |-> Some(res.position[i])]), 0)
    IN {i \in 1..Len(res.position) : res.position[i] - prev[i] # 0}

(***************************************************************************)
(* Data sinks.  A stored frame is a sequence of rows [timestamp, close].   *)
(***************************************************************************)
SinkKinds == {"local", "cloudflare_r2", "oracle_object_storage"}

TsOf(df) == {df[i].timestamp : i \in 1..Len(df)}
RowsOf(df) == {df[i] : i \in 1..Len(df)}

StrictlyAscending(df) ==
    \A i \in 1..(Len(df) - 1) : df[i].timestamp < df[i + 1].timestamp

\* the k-th smallest element of a finite set of integers
KthSmallest(S, k) == CHOOSE x \in S : Cardinality({y \in S : y < x}) = k - 1

\* df.unique(subset=["timestamp"]).sort("timestamp"): one row per timestamp,
\* which of several rows with the same timestamp is kept is not specified
\* (keep = "any"); the result is the set of frames the call can return
UniqueSortNoDedup(df) ==
    {f \in [1..Len(df) -> RowsOf(df)] :
        /\ \A r \in RowsOf(df) :
              Cardinality({i \in 1..Len(df) : f[i] = r})
                 = Cardinality({i \in 1..Len(df) : df[i] = r})
        /\ \A i \in 1..(Len(df) - 1) : f[i].timestamp <= f[i + 1].timestamp}

RECURSIVE UniqueSortOver(_, _)
UniqueSortOver(rows, ts) ==
    IF ts = {} THEN {<<>>}
    ELSE LET m == KthSmallest(ts, 1)
         IN {<<r>> \o rest : r \in {x \in rows : x.timestamp = m},
                             rest \in UniqueSortOver(rows, ts \ {m})}

UniqueSort(df) == UniqueSortOver(RowsOf(df), TsOf(df))

\* DataSink._merge_and_deduplicate
MergeAndDeduplicate(new_df, existing) ==
    IF existing # <<>> THEN UniqueSort(existing[1] \o new_df) ELSE UniqueSort(new_df)

\* read(symbol) as called inside write: <<>> is None, <<df>> a frame.  The
\* object-store sinks return None both for a missing key and for any other
\* error of get_object.
ReadOutcomesNoFault(kind, st, sym) ==
    IF sym \in DOMAIN st THEN {<<st[sym]>>} ELSE {<<>>}

ReadOutcomes(kind, st, sym) ==
    IF sym \notin DOMAIN st THEN {<<>>}
    ELSE IF kind = "local" THEN {<<st[sym]>>}
    ELSE {<<st[sym]>>, <<>>}

\* the frames write(symbol, df) can leave stored
WriteOutcomes(kind, st, sym, df) ==
    CASE kind = "local" ->
            \* output_path.exists() / pl.read_parquet / concat / unique / sort
            IF sym \in DOMAIN st THEN UniqueSort(st[sym] \o df) ELSE UniqueSort(df)
      [] kind = "cloudflare_r2" ->
            UNION {IF e # <<>> THEN UniqueSort(e[1] \o df) ELSE UniqueSort(df) :
                      e \in ReadOutcomes(kind, st, sym)}
      [] OTHER ->
            UNION {MergeAndDeduplicate(df, e) : e \in ReadOutcomes(kind, st, sym)}

PutSymbol(st, sym, f) ==
    [s \in DOMAIN st \cup {sym} |-> IF s = sym THEN f ELSE st[s]]

Closes == {0, 1}
ChunkRows == [timestamp : 1..MaxTs, close : Closes]
Chunks == SeqsUpTo(ChunkRows, MaxChunkRows)

InitSink ==
    /\ VectorIdle /\ SyncIdle /\ ResumeIdle /\ LaterIdle
    /\ sinkKind \in SinkKinds
    /\ store = <<>>
    /\ everTs = [s \in Symbols |-> {}]

SinkWriteStep(kind, sym, df) ==
    /\ sinkKind = kind
    /\ \E f \in WriteOutcomes(kind, store, sym, df) : store' = PutSymbol(store, sym, f)
    /\ everTs' = [everTs EXCEPT ![sym] = @ \cup TsOf(df)]
    /\ UNCHANGED <<sinkKind, vectorVars, syncVars, resumeVars, laterVars>>

\* LocalFileSink.write
LocalFileSinkWrite == \E sym \in Symbols, df \in Chunks : SinkWriteStep("local", sym, df)

\* CloudflareR2Sink.write
CloudflareR2SinkWrite ==
    \E sym \in Symbols, df \in Chunks : SinkWriteStep("cloudflare_r2", sym, df)

\* OracleObjectStorageSink.write
OracleObjectStorageSinkWrite ==
    \E sym \in Symbols, df \in Chunks : SinkWriteStep("oracle_object_storage", sym, df)

NextSink == LocalFileSinkWrite \/ CloudflareR2SinkWrite \/ OracleObjectStorageSinkWrite

SpecSink == InitSink /\ [][NextSink]_vars

(***************************************************************************)
(* IngestOrchestrator: sync and fetch_symbol on the asyncio event loop.    *)
(* A task runs without interruption between two suspension points; the    *)
(* suspension points are the semaphore and the request of the next chunk.  *)
(***************************************************************************)
Upper(x) == IF x = "a" THEN "A" ELSE IF x = "b" THEN "B" ELSE x

\* instruments_df.filter(pl.col("tradingsymbol").is_in([s.upper() for s in symbols]))
FilterBySymbols(df, symbols) ==
    LET wanted == {Upper(x) : x \in symbols}
        keep   == {i \in 1..Len(df) : df[i].tradingsymbol \in wanted}
    IN [k \in 1..Cardinality(keep) |-> df[KthSmallest(keep, k)]]

\* instruments_df.head(limit)
HeadRows(df, n) == SubSeq(df, 1, IF n < Len(df) THEN n ELSE Len(df))

HeadRowsWhenGiven(df, limit) ==
    IF limit # <<>> THEN HeadRows(df, limit[1]) ELSE df

\* lines 195-203: `if symbols:` and `if limit:` skip None, [] and 0
ResolveInstruments(df, symbols, limit) ==
    LET filtered == IF symbols # {} THEN FilterBySymbols(df, symbols) ELSE df
    IN IF limit # <<>> /\ limit[1] # 0 THEN HeadRows(filtered, limit[1]) ELSE filtered

NewTask == [pc |-> "new", log |-> <<>>, ret |-> <<>>, exc |-> "none"]

DictSet(dct, k, v) == [x \in DOMAIN dct \cup {k} |-> IF x = k THEN v ELSE dct[x]]

SymbolOf(t) == instruments_df[t].tradingsymbol

Unfinished == {t \in DOMAIN task : task[t].pc \in {"new", "waiting", "fetching"}}
Waiting == {t \in DOMAIN task : task[t].pc = "waiting"}
Fetching == {t \in DOMAIN task : task[t].pc = "fetching"}

\* number of items the stream of task t has yielded so far
Yielded(lg) == Cardinality({i \in 1..Len(lg) : lg[i][1] \in {"data", "empty"}})

\* Semaphore.acquire returns at once iff a permit is free and nobody queues
CanAcquireUnbounded(value, waiters) == TRUE

CanAcquire(value, waiters) == value > 0 /\ waiters = {}

\* fetch_symbol returned `ret` to _process_one: store the result, leave the
\* `async with semaphore` block
TaskReturns(t, lg, ret, exc) ==
    /\ task' = [task EXCEPT ![t] = [pc |-> "done", log |-> lg, ret |-> <<ret>>, exc |-> exc]]
    /\ results' = DictSet(results, SymbolOf(t), ret)
    /\ sem' = sem + 1

\* an exception leaves fetch_symbol and _process_one: the semaphore is
\* released and the TaskGroup cancels every unfinished task; a cancelled
\* task (CancelledError is not an Exception) stores no result
TaskRaises(t, held, exc) ==
    /\ task' = [u \in DOMAIN task |->
                   IF u = t THEN [task[t] EXCEPT !.pc = "raised", !.exc = exc]
                   ELSE IF u \in Unfinished THEN [task[u] EXCEPT !.pc = "cancelled"]
                   ELSE task[u]]
    /\ sem' = held + 1 + Cardinality(Fetching \ {t})
    /\ UNCHANGED results

\* fetch_symbol from its first line to the first request of a chunk
\* (lines 122-144); `held` is the semaphore value after the acquire
FetchSymbolBegins(t, held) ==
    \/ \* _get_resume_date raises
       TaskRaises(t, held, "resume")
    \/ \* start_date >= end_date: already up to date
       /\ task' = [task EXCEPT ![t] = [pc |-> "done", log |-> <<>>, ret |-> <<TRUE>>,
                                       exc |-> "none"]]
       /\ results' = DictSet(results, SymbolOf(t), TRUE)
       /\ sem' = held + 1
    \/ \* source.calculate_chunks raises
       TaskRaises(t, held, "chunks")
    \/ \* chunk counting done (or not offered by the source): the try block
       \* is entered and the stream is asked for its first item
       /\ task' = [task EXCEPT ![t] = [pc |-> "fetching",
                                       log |-> <<<<"req", 1>>>>,
                                       ret |-> <<>>, exc |-> "none"]]
       /\ sem' = held
       /\ UNCHANGED results

\* sync, lines 193-231: resolve the instruments and create one task per row
SyncCall ==
    /\ spc = "init"
    /\ LET rows == ResolveInstruments(listed, symbolsArg, limitArg)
       IN /\ instruments_df' = rows
          /\ IF rows = <<>>
             THEN /\ spc' = "returned"
                  /\ UNCHANGED <<task, sem>>
             ELSE /\ spc' = "scope"
                  /\ task' = [t \in 1..Len(rows) |-> NewTask]
                  /\ sem' = concurrency
    /\ results' = <<>>
    /\ UNCHANGED <<ctx, listed, symbolsArg, limitArg, concurrency, closeCalls,
                   closeWhileBusy, vectorVars, sinkVars,
                   resumeVars, laterVars>>

\* first step of a task, in creation order: `async with semaphore`
TaskStart(t) ==
    /\ spc = "scope"
    /\ task[t].pc = "new"
    /\ \A u \in 1..(t - 1) : task[u].pc # "new"
    /\ IF CanAcquire(sem, Waiting)
       THEN FetchSymbolBegins(t, sem - 1)
       ELSE /\ task' = [task EXCEPT ![t].pc = "waiting"]
            /\ UNCHANGED <<sem, results>>
    /\ UNCHANGED <<spc, ctx, listed, instruments_df, symbolsArg, limitArg, concurrency,
                   closeCalls, closeWhileBusy, vectorVars, sinkVars,
                   resumeVars, laterVars>>

\* the longest-waiting task gets the permit released by a finished task
TaskWake(t) ==
    /\ spc = "scope"
    /\ task[t].pc = "waiting"
    /\ \A u \in Waiting : t <= u
    /\ CanAcquire(sem, {})
    /\ FetchSymbolBegins(t, sem - 1)
    /\ UNCHANGED <<spc, ctx, listed, instruments_df, symbolsArg, limitArg, concurrency,
                   closeCalls, closeWhileBusy, vectorVars, sinkVars,
                   resumeVars, laterVars>>

\* the body of the `async for` loop for one non-empty chunk, lines 147-159
ConsumeChunkAlwaysUpdates(t, k, writeOk) ==
    LET lg == task[t].log \o <<<<"data", k>>, <<"write", k>>>>
    IN IF writeOk
       THEN /\ task' = [task EXCEPT ![t].log = lg \o <<<<"update", k>>, <<"req", k + 1>>>>]
            /\ UNCHANGED <<sem, results>>
       ELSE TaskReturns(t, lg \o <<<<"update", k>>, <<"complete_symbol", 0>>>>, FALSE, "write")

ConsumeChunk(t, k, writeOk) ==
    LET lg == task[t].log \o <<<<"data", k>>, <<"write", k>>>>
    IN IF writeOk
       THEN /\ task' = [task EXCEPT ![t].log = lg \o <<<<"update", k>>, <<"req", k + 1>>>>]
            /\ UNCHANGED <<sem, results>>
       ELSE \* sink.write raised: except branch, lines 170-174
            TaskReturns(t, lg \o <<<<"complete_symbol", 0>>>>, FALSE, "write")

\* streams are cut after this many items
ChunkBudget == IF Len(instruments_df) = 1 THEN MaxChunks ELSE MaxChunksShared

\* the stream of task t answers the pending request
ChunkStep(t) ==
    /\ spc = "scope"
    /\ task[t].pc = "fetching"
    /\ LET k == Yielded(task[t].log) + 1
       IN \/ /\ k <= ChunkBudget
             /\ \E writeOk \in BOOLEAN : ConsumeChunk(t, k, writeOk)
          \/ \* an empty chunk: `continue`
             /\ k <= ChunkBudget
             /\ task' = [task EXCEPT ![t].log = @ \o <<<<"empty", k>>, <<"req", k + 1>>>>]
             /\ UNCHANGED <<sem, results>>
          \/ \* the stream ends: complete_symbol(symbol, success=True)
             TaskReturns(t, task[t].log \o <<<<"complete_symbol", 1>>>>, TRUE, "none")
          \/ \* the stream raises: except branch
             TaskReturns(t, task[t].log \o <<<<"complete_symbol", 0>>>>, FALSE, "stream")
    /\ UNCHANGED <<spc, ctx, listed, instruments_df, symbolsArg, limitArg, concurrency,
                   closeCalls, closeWhileBusy, vectorVars, sinkVars,
                   resumeVars, laterVars>>

\* the TaskGroup block is left once every task has finished; with a failed
\* task it raises, otherwise sync closes the source and returns results
ScopeJoinReady == Unfinished = {}

ScopeJoin ==
    /\ spc = "scope"
    /\ ScopeJoinReady
    /\ IF \E t \in DOMAIN task : task[t].pc = "raised"
       THEN /\ spc' = "raised"
            /\ UNCHANGED <<closeCalls, closeWhileBusy>>
       ELSE /\ spc' = "returned"
            /\ closeCalls' = closeCalls + 1
            /\ closeWhileBusy' = (closeWhileBusy \/ Unfinished # {})
    /\ UNCHANGED <<ctx, listed, instruments_df, symbolsArg, limitArg, concurrency, task,
                   sem, results, vectorVars, sinkVars,
                   resumeVars, laterVars>>

\* __aexit__ -> close(): self._source was set by sync, so it is closed
ContextExit ==
    /\ ctx = "inside"
    /\ spc \in {"returned", "raised"}
    /\ ctx' = "exited"
    /\ closeCalls' = closeCalls + 1
    /\ closeWhileBusy' = (closeWhileBusy \/ Unfinished # {})
    /\ UNCHANGED <<spc, listed, instruments_df, symbolsArg, limitArg, concurrency, task,
                   sem, results, vectorVars, sinkVars,
                   resumeVars, laterVars>>

InstrumentTables ==
    {[i \in 1..Len(q) |-> [tradingsymbol |-> q[i], instrument_token |-> i]] :
        q \in SeqsUpTo(Symbols, MaxInstruments)}

SymbolFilters == {{}, {"a"}}
Limits == {<<>>} \cup {<<n>> : n \in 0..(MaxInstruments - 1)}

InitSync ==
    /\ VectorIdle /\ SinkIdle /\ ResumeIdle /\ LaterIdle
    /\ spc = "init"
    /\ ctx = "inside"
    /\ listed \in InstrumentTables
    /\ instruments_df = <<>>
    /\ symbolsArg \in SymbolFilters
    /\ limitArg \in Limits
    /\ concurrency \in 1..MaxConcurrency
    /\ task = <<>> /\ sem = 0 /\ results = <<>>
    /\ closeCalls = 0 /\ closeWhileBusy = FALSE

NextSync ==
    \/ SyncCall
    \/ \E t \in DOMAIN task : TaskStart(t)
    \/ \E t \in DOMAIN task : TaskWake(t)
    \/ \E t \in DOMAIN task : ChunkStep(t)
    \/ ScopeJoin
    \/ ContextExit

SpecSync == InitSync /\ [][NextSync]_vars

(***************************************************************************)
(* fetch_symbol with smart resume: one symbol fetched run after run from a *)
(* source whose answer depends on the requested dates only.                *)
(***************************************************************************)
ResumeSymbol == "A"
DefaultStart == 0

\* last_dt.strftime("%Y-%m-%d"): the day a timestamp falls on
DateOf(ts) == ts \div BarsPerDay

\* the bars the source returns for the inclusive range [from_day, to_day]
SourceBars(from_day, to_day) ==
    LET ts == {d * BarsPerDay + b : d \in (from_day..to_day) \cap sourceDays,
                                   b \in 0..(BarsPerDay - 1)}
    IN [k \in 1..Cardinality(ts) |->
           [timestamp |-> KthSmallest(ts, k), close |-> KthSmallest(ts, k) % 2]]

\* fetch_chunks: one inclusive window per chunk_days, in increasing from-date,
\* together covering [start, end]
RECURSIVE ChunkWindows(_, _, _)
ChunkWindows(start, end, days) ==
    IF start > end THEN <<>>
    ELSE LET to == IF start + days < end THEN start + days ELSE end
         IN <<<<start, to>>>> \o ChunkWindows(to + 1, end, days)

\* DataSink.get_last_timestamp on what read returned
GetLastTimestamp(e) ==
    IF e = <<>> \/ e[1] = <<>> THEN <<>>
    ELSE <<CHOOSE x \in TsOf(e[1]) : \A y \in TsOf(e[1]) : y <= x>>

\* sink.exists and sink.get_last_timestamp as _get_resume_date calls them:
\* the values last_ts can take, <<>> when there is none
LastTimestamps(kind, st, sym) ==
    IF sym \notin DOMAIN st THEN {<<>>}
    ELSE {GetLastTimestamp(e) : e \in ReadOutcomes(kind, st, sym)}

\* _get_resume_date
GetResumeDate(last_ts) ==
    IF last_ts = <<>> THEN DefaultStart ELSE DateOf(last_ts[1])

InitResume ==
    /\ VectorIdle /\ SyncIdle /\ LaterIdle
    /\ sinkKind \in SinkKinds
    /\ store = <<>>
    /\ everTs = [s \in Symbols |-> {}]
    /\ rpc = "ready"
    /\ today \in 0..MaxDay
    /\ sourceDays \in SUBSET (0..MaxDay)
    /\ chunk_days \in 1..MaxChunkDays
    /\ end_date = 0 /\ resumed = FALSE /\ pending = <<>> /\ runs = 0

\* fetch_symbol, lines 122-144: end date, resume lookup, up-to-date check
FetchSymbolCall ==
    /\ rpc = "ready"
    /\ runs < MaxRuns
    /\ end_date' = today
    /\ \E last_ts \in LastTimestamps(sinkKind, store, ResumeSymbol) :
          LET start_date == GetResumeDate(last_ts)
          IN IF start_date >= today
             THEN /\ runs' = runs + 1
                  /\ resumed' = FALSE
                  /\ UNCHANGED <<rpc, pending>>
             ELSE /\ pending' = ChunkWindows(start_date, today, chunk_days)
                  /\ rpc' = "fetching"
                  /\ resumed' = (last_ts # <<>>)
                  /\ UNCHANGED runs
    /\ UNCHANGED <<today, sourceDays, chunk_days, vectorVars, sinkVars, syncVars, laterVars>>

\* one iteration of the `async for` loop, lines 144-159
FetchSymbolChunk ==
    /\ rpc = "fetching"
    /\ pending # <<>>
    /\ LET chunk_df == SourceBars(Head(pending)[1], Head(pending)[2])
       IN IF chunk_df = <<>>
          THEN UNCHANGED <<store, everTs>>
          ELSE /\ \E f \in WriteOutcomes(sinkKind, store, ResumeSymbol, chunk_df) :
                     store' = PutSymbol(store, ResumeSymbol, f)
               /\ everTs' = [everTs EXCEPT ![ResumeSymbol] = @ \cup TsOf(chunk_df)]
    /\ pending' = Tail(pending)
    /\ UNCHANGED <<rpc, today, sourceDays, chunk_days, end_date, resumed, runs,
                   sinkKind, vectorVars, syncVars, laterVars>>

\* the stream is exhausted: lines 161-168
FetchSymbolReturn ==
    /\ rpc = "fetching"
    /\ pending = <<>>
    /\ rpc' = "ready"
    /\ runs' = runs + 1
    /\ UNCHANGED <<today, sourceDays, chunk_days, end_date, resumed, pending,
                   vectorVars, sinkVars, syncVars, laterVars>>

\* between two calls the calendar moves on
DayPasses ==
    /\ rpc = "ready"
    /\ today < MaxDay
    /\ today' = today + 1
    /\ UNCHANGED <<rpc, sourceDays, chunk_days, end_date, resumed, pending, runs,
                   vectorVars, sinkVars, syncVars, laterVars>>

NextResume == FetchSymbolCall \/ FetchSymbolChunk \/ FetchSymbolReturn \/ DayPasses

SpecResume == InitResume /\ [][NextResume]_vars

(***************************************************************************)
(* RateLimiter (sources/zerodha.py).  Half tokens and ticks keep the       *)
(* arithmetic of rates such as 2.5/s in the integers: a rate of r tokens   *)
(* per second is max_tokens = 2r half tokens, refilled one per tick, and   *)
(* one second is 2r ticks.                                                 *)
(***************************************************************************)
OneToken == 2
DefaultRate == 5
TenCalls == 10

Min(a, b) == IF a < b THEN a ELSE b
Max(a, b) == IF a > b THEN a ELSE b

\* a number of seconds in ticks, at the rate of this limiter
Seconds(n) == n * max_tokens

\* self.tokens = min(self.max_tokens, self.tokens + elapsed * self.rate_limit)
RefillDoubled(tok, elapsed) == Min(max_tokens, tok + 2 * elapsed)

Refill(tok, elapsed) == Min(max_tokens, tok + elapsed)

\* wait_time = (1 - self.tokens) / self.rate_limit
WaitTime(tok) == OneToken - tok

\* the holder of the lock runs wait() from the loop test to its next
\* suspension: it either sleeps or takes a token and returns
WaitLoop ==
    IF tokens >= OneToken
    THEN /\ tokens' = tokens - OneToken
         /\ completions' = Append(completions, now)
         /\ lock' = "free"
         /\ UNCHANGED <<updated_at, wake_at>>
    ELSE LET refilled == Refill(tokens, now - updated_at)
         IN /\ updated_at' = now
            /\ IF refilled < OneToken
               THEN /\ tokens' = refilled
                    /\ lock' = "sleeping"
                    /\ wake_at' = now + WaitTime(refilled)
                    /\ UNCHANGED completions
               ELSE /\ tokens' = refilled - OneToken
                    /\ completions' = Append(completions, now)
                    /\ lock' = "free"
                    /\ UNCHANGED wake_at

\* a caller invokes wait() and queues on the lock
RateCall ==
    /\ rmode = "free"
    /\ issued < MaxCalls
    /\ issued' = issued + 1
    /\ queued' = queued + 1
    /\ UNCHANGED <<rmode, max_tokens, tokens, updated_at, lock, wake_at, now,
                   completions, notRateVars>>

\* a lock that lets a caller in whoever holds it
LockNeverHeld == TRUE

\* asyncio.Lock.acquire returns: the lock is held by nobody
LockAcquired == lock = "free"

\* `async with self.lock`: the longest-queued caller gets the free lock
RateEnter ==
    /\ LockAcquired
    /\ queued > 0
    /\ queued' = queued - 1
    /\ WaitLoop
    /\ UNCHANGED <<rmode, max_tokens, now, issued, notRateVars>>

\* asyncio.sleep(wait_time) returns
RateWake ==
    /\ lock = "sleeping"
    /\ now = wake_at
    /\ WaitLoop
    /\ UNCHANGED <<rmode, max_tokens, now, queued, issued, notRateVars>>

\* time passes while nobody can run
RateTick ==
    /\ rmode \in {"free", "burst"}
    /\ ~(lock = "free" /\ queued > 0)
    /\ ~(lock = "sleeping" /\ now = wake_at)
    /\ now < (IF rmode = "burst" THEN Seconds(4) + 1 ELSE MaxNow)
    /\ now' = now + 1
    /\ UNCHANGED <<rmode, max_tokens, tokens, updated_at, lock, wake_at, queued, issued,
                   completions, notRateVars>>

\* RateLimiter.__init__, followed either by calls at any time or by ten
\* calls made at the instant of creation on a limiter of the default rate
InitRate ==
    /\ NotRateIdle
    /\ \/ /\ rmode = "free"
          /\ max_tokens \in OneToken..DefaultRate
          /\ queued = 0 /\ issued = 0
       \/ /\ rmode = "burst"
          /\ max_tokens = DefaultRate
          /\ queued = TenCalls /\ issued = TenCalls
    /\ tokens = max_tokens
    /\ updated_at = 0 /\ now = 0
    /\ lock = "free" /\ wake_at = 0
    /\ completions = <<>>

NextRate == RateCall \/ RateEnter \/ RateWake \/ RateTick

SpecRate == InitRate /\ [][NextRate]_vars

(***************************************************************************)
(* EventBus and EventEngine (engine/event_bus.py, engine/event_engine.py). *)
(* The engine is single-threaded: process_next runs to its end, listeners  *)
(* included, before anything else happens.  A listener may publish.        *)
(***************************************************************************)
Listeners == {"on_bar", "on_order"}

\* self._queue.put(event)
QueuePutFirst(q, e) == <<e>> \o q

QueuePut(q, e) == Append(q, e)

\* EventBus.publish for events of the given types, one after the other
RECURSIVE PublishAll(_, _, _, _, _)
PublishAll(q, pub, types, bar, cause) ==
    IF types = <<>> THEN [queue |-> q, published |-> pub]
    ELSE LET e == [type |-> Head(types), id |-> Len(pub) + 1, bar |-> bar,
                   cause |-> cause]
         IN PublishAll(QueuePut(q, e), Append(pub, e), Tail(types), bar, cause)

RECURSIVE Flatten(_)
Flatten(ss) == IF ss = <<>> THEN <<>> ELSE Head(ss) \o Flatten(Tail(ss))

\* EventBus.subscribe
Subscribe(ty, l) ==
    /\ epc \in {"bus", "setup"}
    /\ Len(_listeners["MarketEvent"]) + Len(_listeners["OrderEvent"]) < MaxSubs
    /\ _listeners' = [_listeners EXCEPT ![ty] = Append(@, l)]
    /\ UNCHANGED <<epc, _queue, continue_backtest, source, pulled, published, handled,
                   calls, notEventVars>>

\* EventBus.publish, called from outside a listener
Publish(ty) ==
    /\ epc = "bus"
    /\ Len(published) < MaxEvents
    /\ LET r == PublishAll(_queue, published, <<ty>>, 0, 0)
       IN _queue' = r.queue /\ published' = r.published
    /\ UNCHANGED <<epc, _listeners, continue_backtest, source, pulled, handled, calls,
                   notEventVars>>

\* EventBus.process_next on a non-empty queue (on an empty one it returns
\* False and changes nothing)
ProcessNext ==
    /\ epc \in {"bus", "drain"}
    /\ _queue # <<>>
    /\ LET event == Head(_queue)
           subs  == _listeners[event.type]
       IN \* pubs[i]: the types of the events the i-th listener publishes
          \E pubs \in [1..Len(subs) -> SeqsUpTo(EventTypes, 1)] :
             LET types == Flatten(pubs)
                 r     == PublishAll(Tail(_queue), published, types, event.bar,
                                     event.id)
             IN /\ Len(published) + Len(types) <= MaxEvents
                /\ _queue' = r.queue
                /\ published' = r.published
                /\ handled' = Append(handled, event.id)
                /\ calls' = calls \o [i \in 1..Len(subs) |->
                                        [listener |-> subs[i], pos |-> i, id |-> event.id]]
    /\ UNCHANGED <<epc, _listeners, continue_backtest, source, pulled, notEventVars>>

\* EventEngine.run is entered
RunStart ==
    /\ epc = "setup"
    /\ epc' = "pull"
    /\ UNCHANGED <<_listeners, _queue, continue_backtest, source, pulled, published,
                   handled, calls, notEventVars>>

\* process_all has nothing left to do
QueueDrainedAlways == TRUE

QueueDrained == _queue = <<>>

\* `for event in data_iterator`: the next source event is pulled and
\* published (lines 27-32); process_all starts
PullSourceEvent ==
    /\ epc \in {"pull", "drain"}
    /\ epc = "drain" => QueueDrained
    /\ pulled < source
    /\ continue_backtest
    /\ Len(published) < MaxEvents
    /\ pulled' = pulled + 1
    /\ LET r == PublishAll(_queue, published, <<"MarketEvent">>, pulled + 1, 0)
       IN _queue' = r.queue /\ published' = r.published
    /\ epc' = "drain"
    /\ UNCHANGED <<_listeners, continue_backtest, source, handled, calls, notEventVars>>

\* the data iterator is exhausted: run returns
RunReturn ==
    /\ epc \in {"pull", "drain"}
    /\ epc = "drain" => QueueDrained
    /\ pulled = source
    /\ epc' = "returned"
    /\ UNCHANGED <<_listeners, _queue, continue_backtest, source, pulled, published,
                   handled, calls, notEventVars>>

InitBus ==
    /\ NotEventIdle
    /\ epc = "bus"
    /\ _listeners = [ty \in EventTypes |-> <<>>]
    /\ _queue = <<>> /\ continue_backtest = TRUE /\ source = 0 /\ pulled = 0
    /\ published = <<>> /\ handled = <<>> /\ calls = <<>>

NextBus ==
    \/ \E ty \in EventTypes, l \in Listeners : Subscribe(ty, l)
    \/ \E ty \in EventTypes : Publish(ty)
    \/ ProcessNext

SpecBus == InitBus /\ [][NextBus]_vars

InitEngine ==
    /\ NotEventIdle
    /\ epc = "setup"
    /\ _listeners = [ty \in EventTypes |-> <<>>]
    /\ _queue = <<>> /\ continue_backtest = TRUE
    /\ source \in 0..MaxSource
    /\ pulled = 0
    /\ published = <<>> /\ handled = <<>> /\ calls = <<>>

NextEngine ==
    \/ \E ty \in EventTypes, l \in Listeners : Subscribe(ty, l)
    \/ RunStart
    \/ PullSourceEvent
    \/ ProcessNext
    \/ RunReturn

SpecEngine == InitEngine /\ [][NextEngine]_vars

(***************************************************************************)
(* ZerodhaSource.fetch and _fetch_chunk (sources/zerodha.py).  One action  *)
(* is one HTTP attempt; the broker's answer is the input.                  *)
(***************************************************************************)
Answers == {"candles", "no_candles", "400", "429", "client_error", "not_success"}

Attempts == 3

\* next_dt = min(current_dt + timedelta(days=chunk_days), end_dt)
NextDt == Min(current_dt + fetch_chunk_days, end_dt)

RECURSIVE DaysFrom(_, _)
DaysFrom(a, b) == IF a > b THEN <<>> ELSE <<a>> \o DaysFrom(a + 1, b)

\* _fetch_chunk has returned `outcome` ("candles", "empty" or "none") for
\* the window [current_dt, next_dt]; lines 124-129 of fetch: candles are
\* kept, anything falsy is passed over, and the loop moves to the next window
ChunkDone(outcome, answer) ==
    /\ chunkLog' = Append(chunkLog, [from |-> current_dt, to |-> NextDt,
                                     outcome |-> outcome,
                                     answers |-> Append(answers, answer),
                                     waits |-> rate_waits])
    /\ attempt' = 0
    /\ rate_waits' = 0
    /\ answers' = <<>>
    /\ all_candles' = IF outcome = "candles"
                       THEN all_candles \o DaysFrom(current_dt, NextDt)
                       ELSE all_candles
    /\ current_dt' = NextDt + 1
    /\ UNCHANGED <<zpc, fetch_result>>

\* the running pass of the loop has no completed wait() yet, were wait()
\* called once ahead of the loop
WaitDueOnce == rate_waits = 0

\* the running pass of `for attempt in range(3)` has not yet completed its
\* `await self.rate_limiter.wait()`, the first statement of the pass
WaitDue == rate_waits <= attempt

\* `await self.rate_limiter.wait()` of the running pass returns, line 164
ChunkWait ==
    /\ zpc = "loop"
    /\ current_dt < end_dt
    /\ WaitDue
    /\ rate_waits' = rate_waits + 1
    /\ UNCHANGED <<zpc, start_dt, end_dt, fetch_chunk_days, current_dt, attempt,
                   all_candles, chunkLog, fetch_result, answers, notZerodhaVars>>

\* the request of one pass of `for attempt in range(3)` in _fetch_chunk and
\* what follows from its answer, lines 166-191
FetchAttempt(answer) ==
    /\ zpc = "loop"
    /\ current_dt < end_dt
    /\ ~WaitDue
    /\ CASE answer \in {"429", "client_error"} ->
               \* sleep and try again; after the third attempt return None
               IF attempt + 1 < Attempts
               THEN /\ attempt' = attempt + 1
                    /\ answers' = Append(answers, answer)
                    /\ UNCHANGED <<zpc, current_dt, all_candles, chunkLog, fetch_result,
                                   rate_waits>>
               ELSE ChunkDone("none", answer)
         [] answer = "400" -> ChunkDone("empty", answer)
         [] answer = "candles" -> ChunkDone("candles", answer)
         [] answer = "no_candles" -> ChunkDone("empty", answer)
         [] OTHER -> \* status is not "success": return None
               ChunkDone("none", answer)
    /\ UNCHANGED <<start_dt, end_dt, fetch_chunk_days, notZerodhaVars>>

\* the while loop ends, lines 131-143
FetchReturn ==
    /\ zpc = "loop"
    /\ ~(current_dt < end_dt)
    /\ zpc' = "returned"
    /\ fetch_result' = IF all_candles = <<>> THEN <<>> ELSE <<all_candles>>
    /\ UNCHANGED <<start_dt, end_dt, fetch_chunk_days, current_dt, attempt, all_candles,
                   chunkLog, rate_waits, answers, notZerodhaVars>>

\* fetch(symbol, token, start_date, end_date) is called
InitZerodha ==
    /\ NotZerodhaIdle
    /\ zpc = "loop"
    /\ start_dt \in 0..MaxDay
    /\ end_dt \in 0..MaxDay
    /\ fetch_chunk_days \in 1..MaxChunkDays
    /\ current_dt = start_dt
    /\ attempt = 0 /\ all_candles = <<>> /\ chunkLog = <<>> /\ fetch_result = <<>>
    /\ rate_waits = 0 /\ answers = <<>>

NextZerodha == ChunkWait \/ (\E answer \in Answers : FetchAttempt(answer)) \/ FetchReturn

SpecZerodha == InitZerodha /\ [][NextZerodha]_vars

(***************************************************************************)
(* ScannerService (services/scanner_service.py).  A text is a sequence of  *)
(* one-character strings; a float is a whole number of hundredths, or NaN. *)
(***************************************************************************)
NaN == 1000000000

\* float comparison: every comparison with NaN is false
IsLt(a, b) == a # NaN /\ b # NaN /\ a < b

DigitChars == <<"0", "1", "2", "3", "4", "5", "6", "7", "8", "9">>

IsDigit(c) == \E d \in 1..10 : DigitChars[d] = c

DigitValue(c) == (CHOOSE d \in 1..10 : DigitChars[d] = c) - 1

AllDigits(t) == \A i \in 1..Len(t) : IsDigit(t[i])

RECURSIVE DigitsValue(_)
DigitsValue(t) ==
    IF t = <<>> THEN 0
    ELSE 10 * DigitsValue(SubSeq(t, 1, Len(t) - 1)) + DigitValue(t[Len(t)])

\* str.replace(ch, "")
Replace(t, ch) == SelectSeq(t, LAMBDA c : c # ch)

\* str.strip()
RECURSIVE Strip(_)
Strip(t) ==
    IF t = <<>> THEN t
    ELSE IF t[1] = " " THEN Strip(Tail(t))
    ELSE IF t[Len(t)] = " " THEN Strip(SubSeq(t, 1, Len(t) - 1))
    ELSE t

\* float() of digits with at most one point and at most two digits after it
UnsignedFloat(t) ==
    LET dots == {i \in 1..Len(t) : t[i] = "."}
    IN IF dots = {}
       THEN IF t # <<>> /\ AllDigits(t) THEN Some(100 * DigitsValue(t)) ELSE Null
       ELSE IF Cardinality(dots) > 1 THEN Null
       ELSE LET d  == CHOOSE i \in dots : TRUE
                ip == SubSeq(t, 1, d - 1)
                fp == SubSeq(t, d + 1, Len(t))
            IN IF AllDigits(ip) /\ AllDigits(fp) /\ Len(ip) + Len(fp) > 0 /\ Len(fp) <= 2
               THEN Some(100 * DigitsValue(ip)
                         + (IF Len(fp) = 1 THEN 10 * DigitsValue(fp) ELSE DigitsValue(fp)))
               ELSE Null

\* float(text): Null stands for ValueError; "nan" with any sign is NaN
Float(t) ==
    LET signed == t # <<>> /\ t[1] \in {"+", "-"}
        body   == IF signed THEN Tail(t) ELSE t
        u      == UnsignedFloat(body)
    IN IF body = <<"n", "a", "n">> THEN Some(NaN)
       ELSE IF u = Null THEN Null
       ELSE IF signed /\ t[1] = "-" THEN Some(0 - u[1]) ELSE u

\* _extract_return(metrics); metrics is Null when it has no "Total Return"
ExtractReturn(metrics) ==
    LET val == IF metrics = Null THEN <<"0", "%">> ELSE metrics[1]
        f   == Float(Strip(Replace(Replace(val, "%"), ",")))
    IN IF f = Null THEN 0 ELSE f[1]

Reverse(q) == [i \in 1..Len(q) |-> q[Len(q) + 1 - i]]

\* count_run of list.sort: the end of the run that starts the list
RECURSIVE RunEnd(_, _, _)
RunEnd(q, j, desc) ==
    IF j > Len(q) THEN Len(q)
    ELSE IF IsLt(ExtractReturn(q[j].metrics), ExtractReturn(q[j - 1].metrics)) = desc
         THEN RunEnd(q, j + 1, desc)
         ELSE j - 1

\* the place binarysort finds for the pivot among q[l .. r-1]
RECURSIVE BinarySearch(_, _, _, _)
BinarySearch(q, pivot, l, r) ==
    IF l >= r THEN l
    ELSE LET mid == l + ((r - l) \div 2)
         IN IF IsLt(ExtractReturn(pivot.metrics), ExtractReturn(q[mid].metrics))
            THEN BinarySearch(q, pivot, l, mid)
            ELSE BinarySearch(q, pivot, mid + 1, r)

\* binarysort of list.sort: q[1 .. i-1] is sorted, insert q[i], q[i+1], ...
RECURSIVE BinarySort(_, _)
BinarySort(q, i) ==
    IF i > Len(q) THEN q
    ELSE LET l == BinarySearch(q, q[i], 1, i)
         IN BinarySort(SubSeq(q, 1, l - 1) \o <<q[i]>> \o SubSeq(q, l, i - 1)
                       \o SubSeq(q, i + 1, Len(q)), i + 1)

\* list.sort(key=_extract_return) for a list shorter than one minimal run
ListSort(q) ==
    IF Len(q) < 2 THEN q
    ELSE LET desc == IsLt(ExtractReturn(q[2].metrics), ExtractReturn(q[1].metrics))
             m    == RunEnd(q, 3, desc)
             run  == IF desc THEN Reverse(SubSeq(q, 1, m)) \o SubSeq(q, m + 1, Len(q))
                     ELSE q
         IN BinarySort(run, m + 1)

\* all_results.sort(key=..., reverse=True)
SortByReturnDescending(q) == Reverse(ListSort(Reverse(q)))

ReturnTexts ==
    { <<"2", "5", ".", "0", "0", "%">>, <<"1", "0", ".", "0", "0", "%">>,
      <<"n", "a", "n", "%">>, <<"N", "/", "A">> }

\* the metrics a backtest or a cached row can carry
MetricsValues == {Null} \cup {Some(t) : t \in ReturnTexts}

\* how one run_backtest call ends
BacktestOutcomes ==
    {[raised |-> TRUE, metrics |-> Null]}
        \cup {[raised |-> FALSE, metrics |-> m] : m \in MetricsValues}

ScanResult(symbol, metrics, status, error, cached) ==
    [symbol |-> symbol, metrics |-> metrics, status |-> status, error |-> error,
     cached |-> cached]

ScanResponse(total, all_results, ncached, nfresh) ==
    [total_symbols |-> total,
     completed |-> Cardinality({i \in 1..Len(all_results) : all_results[i].status # "error"}),
     failed |-> Cardinality({i \in 1..Len(all_results) : all_results[i].status = "error"}),
     cached_count |-> ncached,
     fresh_count |-> nfresh,
     results |-> all_results]

SeqRange(q) == {q[i] : i \in 1..Len(q)}

\* the orders list(set(...)) can give
ListsOfSet(S) == {q \in SeqsUpTo(S, Cardinality(S)) : SeqRange(q) = S /\ Len(q) = Cardinality(S)}

\* [s for s in q if s not in skip]
Without(q, skip) == SelectSeq(q, LAMBDA x : x \notin skip)

ScanCacheTtlHours == 24

\* hours between the cache lookup and the store of one scan
Elapsed == {0, 1}

\* a row of scan_results
CacheRow(metrics, expires_at, status) ==
    [metrics |-> metrics, expires_at |-> expires_at, status |-> status]

\* the filter of the query without its expires_at and status conditions
MatchesAnyRow(row) == TRUE

\* ScanResultCache.expires_at > now, ScanResultCache.status == "success"
Matches(row) == row.expires_at > scan_now /\ row.status = "success"

\* _get_cached_results: the rows found, or {} when the read fails
GetCachedResults(syms, ok) ==
    IF ok
    THEN LET hit == SelectSeq(syms, LAMBDA x : x \in DOMAIN cacheRows /\ Matches(cacheRows[x]))
         IN [i \in 1..Len(hit) |->
                ScanResult(hit[i], cacheRows[hit[i]].metrics, "cached", Null, TRUE)]
    ELSE <<>>

\* scan, lines 66-117: everything before the gather
ScanCall ==
    /\ scpc = "called"
    /\ IF ~scan_request.strategy_known
       THEN /\ scpc' = "raised"
            /\ UNCHANGED <<scan_symbols, cached_results, symbols_to_compute, taskState,
                           fresh_results, response, cache_read_failed>>
       ELSE \E syms \in (IF scan_request.symbols # <<>>
                         THEN ListsOfSet({Upper(x) : x \in SeqRange(scan_request.symbols)})
                         ELSE {scan_instruments}) :
            /\ scan_symbols' = syms
            /\ IF syms = <<>>
               THEN /\ scpc' = "returned"
                    /\ response' = Some(ScanResponse(0, <<>>, 0, 0))
                    /\ UNCHANGED <<cached_results, symbols_to_compute, taskState,
                                   fresh_results, cache_read_failed>>
               ELSE \E ok \in BOOLEAN :
                    LET found == IF has_db THEN GetCachedResults(syms, ok) ELSE <<>>
                        todo  == Without(syms, {found[i].symbol : i \in 1..Len(found)})
                    IN /\ (~has_db => ok)
                       /\ cache_read_failed' = ~ok
                       /\ cached_results' = found
                       /\ symbols_to_compute' = todo
                       /\ taskState' = [i \in 1..Len(todo) |-> "waiting"]
                       /\ fresh_results' = [i \in 1..Len(todo) |-> Null]
                       /\ scpc' = "gather"
                       /\ UNCHANGED response
    /\ UNCHANGED <<scan_request, scan_instruments, has_db, scan_now, cacheRows,
                   notScanVars>>

\* _backtest_symbol, `async with sem`: the tasks enter in the order they
\* were made, while fewer than max_concurrency are inside
BacktestAcquire(i) ==
    /\ scpc = "gather"
    /\ i \in 1..Len(taskState)
    /\ taskState[i] = "waiting"
    /\ \A j \in 1..(i - 1) : taskState[j] # "waiting"
    /\ Cardinality({j \in 1..Len(taskState) : taskState[j] = "running"})
          < scan_request.max_concurrency
    /\ taskState' = [taskState EXCEPT ![i] = "running"]
    /\ UNCHANGED <<scpc, scan_request, scan_instruments, has_db, scan_now,
                   cache_read_failed, cacheRows, scan_symbols,
                   cached_results, symbols_to_compute, fresh_results, response,
                   notScanVars>>

\* _backtest_symbol without its try/except: a failing backtest fails the gather
BacktestReturnUncaught(i, outcome) ==
    /\ scpc = "gather"
    /\ i \in 1..Len(taskState)
    /\ taskState[i] = "running"
    /\ taskState' = [taskState EXCEPT ![i] = "done"]
    /\ IF outcome.raised
       THEN scpc' = "raised" /\ UNCHANGED fresh_results
       ELSE /\ fresh_results' = [fresh_results EXCEPT ![i] =
                   Some(ScanResult(symbols_to_compute[i], outcome.metrics, "success", Null, FALSE))]
            /\ UNCHANGED scpc
    /\ UNCHANGED <<scan_request, scan_instruments, has_db, scan_now, cache_read_failed,
                   cacheRows, scan_symbols,
                   cached_results, symbols_to_compute, response, notScanVars>>

\* _backtest_symbol, lines 165-211: run_backtest returns or raises
BacktestReturn(i, outcome) ==
    /\ scpc = "gather"
    /\ i \in 1..Len(taskState)
    /\ taskState[i] = "running"
    /\ taskState' = [taskState EXCEPT ![i] = "done"]
    /\ fresh_results' = [fresh_results EXCEPT ![i] =
           IF outcome.raised
           THEN Some(ScanResult(symbols_to_compute[i], Null, "error", Some("str(e)"), FALSE))
           ELSE Some(ScanResult(symbols_to_compute[i], outcome.metrics, "success", Null, FALSE))]
    /\ UNCHANGED <<scpc, scan_request, scan_instruments, has_db, scan_now,
                   cache_read_failed, cacheRows, scan_symbols,
                   cached_results, symbols_to_compute, response, notScanVars>>

\* _store_results at time t: upsert the successful fresh results
StoreResults(fresh, t) ==
    LET good == {i \in 1..Len(fresh) : fresh[i].status = "success"}
        syms == {fresh[i].symbol : i \in good}
    IN [x \in (DOMAIN cacheRows) \cup syms |->
           IF x \in syms
           THEN CacheRow((CHOOSE r \in {fresh[i] : i \in good} : r.symbol = x).metrics,
                         t + ScanCacheTtlHours, "success")
           ELSE cacheRows[x]]

\* scan, lines 119-156: the gather is over; store, merge, sort, count
ScanServe ==
    /\ scpc = "gather"
    /\ \A i \in 1..Len(taskState) : taskState[i] = "done"
    /\ LET fresh == [i \in 1..Len(fresh_results) |-> fresh_results[i][1]]
           all_results == SortByReturnDescending(cached_results \o fresh)
           successful == \E i \in 1..Len(fresh) : fresh[i].status = "success"
       IN /\ IF has_db /\ successful
             THEN \* _store_results reads the clock, then writes or fails
                  \E elapsed \in Elapsed, stored \in BOOLEAN :
                     /\ scan_now' = scan_now + elapsed
                     /\ cacheRows' = IF stored THEN StoreResults(fresh, scan_now')
                                     ELSE cacheRows
             ELSE UNCHANGED <<scan_now, cacheRows>>
          /\ response' = Some(ScanResponse(Len(scan_symbols), all_results,
                                           Len(cached_results), Len(fresh)))
    /\ scpc' = "returned"
    /\ UNCHANGED <<scan_request, scan_instruments, has_db, cache_read_failed,
                   scan_symbols, cached_results,
                   symbols_to_compute, taskState, fresh_results, notScanVars>>

RequestSymbols == {"a", "A", "b"}

Instruments == <<"A", "B", "C">>

\* rows that are live at time t, with any metrics
LiveRows(t) == {CacheRow(m, t + 1, "success") : m \in MetricsValues}

\* rows the query passes over at time t: one expiring now, one of a failed scan
DeadRows(t) == {CacheRow(Null, t, "success"), CacheRow(Null, t + 1, "error")}

\* the rows of scan_results for the strategy and params_hash of the request;
\* a dead row, if any, belongs to the first instrument
CacheTables(t) ==
    {f \in UNION {[D -> LiveRows(t) \cup DeadRows(t)] : D \in SUBSET SeqRange(Instruments)} :
        /\ Cardinality(DOMAIN f) <= MaxCachedRows
        /\ \A x \in DOMAIN f : f[x] \in DeadRows(t) => x = Instruments[1]}

InitScan ==
    /\ NotScanIdle
    /\ scpc = "called"
    /\ scan_request \in [strategy_known : BOOLEAN,
                         symbols : SeqsUpTo(RequestSymbols, MaxRequested),
                         max_concurrency : 1..MaxConcurrency]
    /\ scan_instruments \in {<<>>, Instruments}
    /\ has_db \in BOOLEAN
    /\ scan_now = ScanCacheTtlHours
    /\ cache_read_failed = FALSE
    /\ cacheRows \in CacheTables(scan_now)
    /\ (~has_db => cacheRows = <<>>)
    /\ scan_symbols = <<>> /\ cached_results = <<>> /\ symbols_to_compute = <<>>
    /\ taskState = <<>> /\ fresh_results = <<>> /\ response = <<>>

NextScan ==
    \/ ScanCall
    \/ \E i \in 1..Len(Instruments) : BacktestAcquire(i)
    \/ \E i \in 1..Len(Instruments), outcome \in BacktestOutcomes : BacktestReturn(i, outcome)
    \/ ScanServe

SpecScan == InitScan /\ [][NextScan]_vars

(***************************************************************************)
(* MemoryCache (hermes_data/cache/memory.py).  Every method body runs      *)
(* under the cache's lock, so one call is one action.  A key is the text   *)
(* that is hashed; the hash is taken to be free of collisions.             *)
(***************************************************************************)
SymbolOrder == <<"A", "B">>

Rank(x) == CHOOSE i \in 1..Len(SymbolOrder) : SymbolOrder[i] = x

\* sorted(symbols)
RECURSIVE SortedSymbols(_)
SortedSymbols(l) ==
    IF l = <<>> THEN <<>>
    ELSE LET rest == SortedSymbols(Tail(l))
             less == SelectSeq(rest, LAMBDA x : Rank(x) < Rank(Head(l)))
             more == SelectSeq(rest, LAMBDA x : Rank(x) >= Rank(Head(l)))
         IN less \o <<Head(l)>> \o more

\* ",".join(l)
RECURSIVE Join(_)
Join(l) ==
    IF l = <<>> THEN <<>>
    ELSE IF Len(l) = 1 THEN <<l[1]>>
    ELSE <<l[1], ",">> \o Join(Tail(l))

\* `date or ''`
OrEmpty(date) == IF date = Null THEN <<>> ELSE date[1]

\* _make_key without the sort
MakeKeyAsListed(l, start, end) ==
    Join(l) \o <<":">> \o OrEmpty(start) \o <<":">> \o OrEmpty(end)

\* _make_key(symbols, start_date, end_date)
MakeKey(l, start, end) ==
    Join(SortedSymbols(l)) \o <<":">> \o OrEmpty(start) \o <<":">> \o OrEmpty(end)

HeldKeys == {_cache[i].key : i \in 1..Len(_cache)}

EntryOf(key) == _cache[CHOOSE i \in 1..Len(_cache) : _cache[i].key = key]

\* how many of the oldest entries of q the while loop of set pops
RECURSIVE EvictCount(_, _, _)
EvictCount(q, current, size_mb) ==
    IF current + size_mb > max_size_mb /\ q # <<>>
    THEN 1 + EvictCount(Tail(q), current - _sizes[Head(q).key], size_mb)
    ELSE 0

RECURSIVE SizeSum(_)
SizeSum(q) == IF q = <<>> THEN 0 ELSE _sizes[Head(q).key] + SizeSum(Tail(q))

KeysOf(q) == [i \in 1..Len(q) |-> q[i].key]

\* get without move_to_end
CacheGetNoRefresh(l, start, end) ==
    LET key == MakeKey(l, start, end)
        hit == key \in HeldKeys
    IN /\ cpc = "ready"
       /\ _hits + _misses < MaxLookups
       /\ _hits' = IF hit THEN _hits + 1 ELSE _hits
       /\ _misses' = IF hit THEN _misses ELSE _misses + 1
       /\ UNCHANGED _cache
       /\ used' = IF hit THEN Without(used, {key}) \o <<key>> ELSE used
       /\ usedStored' = IF hit THEN Without(usedStored, {key}) \o <<key>> ELSE usedStored
       /\ lastOp' = [NoOp EXCEPT !.op = "get", !.symbols = l, !.key = key,
                       !.returned = IF hit THEN Some(EntryOf(key).data) ELSE Null,
                       !.prevSet = IF lastOp.op = "set"
                                   THEN Some([symbols |-> lastOp.symbols,
                                              data |-> lastOp.data[1]])
                                   ELSE Null]
       /\ UNCHANGED <<cpc, max_size_mb, _sizes, _current_size_mb, notCacheVars>>

\* get(symbols, start_date, end_date)
CacheGet(l, start, end) ==
    LET key == MakeKey(l, start, end)
        hit == key \in HeldKeys
    IN /\ cpc = "ready"
       /\ _hits + _misses < MaxLookups
       /\ _hits' = IF hit THEN _hits + 1 ELSE _hits
       /\ _misses' = IF hit THEN _misses ELSE _misses + 1
       /\ _cache' = IF hit
                    THEN SelectSeq(_cache, LAMBDA e : e.key # key) \o <<EntryOf(key)>>
                    ELSE _cache
       /\ used' = IF hit THEN Without(used, {key}) \o <<key>> ELSE used
       /\ usedStored' = IF hit THEN Without(usedStored, {key}) \o <<key>> ELSE usedStored
       /\ lastOp' = [NoOp EXCEPT !.op = "get", !.symbols = l, !.key = key,
                       !.returned = IF hit THEN Some(EntryOf(key).data) ELSE Null,
                       !.prevSet = IF lastOp.op = "set"
                                   THEN Some([symbols |-> lastOp.symbols,
                                              data |-> lastOp.data[1]])
                                   ELSE Null]
       /\ UNCHANGED <<cpc, max_size_mb, _sizes, _current_size_mb, notCacheVars>>

\* set(symbols, start_date, end_date, data)
CacheSet(l, start, end, frame) ==
    LET key     == MakeKey(l, start, end)
        size_mb == frame.size_mb
        held    == key \in HeldKeys
        others  == SelectSeq(_cache, LAMBDA e : e.key # key)
        current == IF held THEN _current_size_mb - _sizes[key] ELSE _current_size_mb
        n       == EvictCount(others, current, size_mb)
        gone    == SubSeq(others, 1, n)
        kept    == SubSeq(others, n + 1, Len(others))
        goneSet == SeqRange(KeysOf(gone))
    IN /\ cpc = "ready"
       /\ IF size_mb > max_size_mb
          THEN /\ UNCHANGED <<_cache, _sizes, _current_size_mb, usedStored>>
               /\ used' = IF held THEN Without(used, {key}) \o <<key>> ELSE used
               /\ lastOp' = [NoOp EXCEPT !.op = "set", !.symbols = l, !.key = key,
                                         !.data = Some(frame)]
          ELSE /\ _cache' = kept \o <<[key |-> key, data |-> frame]>>
               /\ _sizes' = [k \in (HeldKeys \ goneSet) \cup {key} |->
                                IF k = key THEN size_mb ELSE _sizes[k]]
               /\ _current_size_mb' = current - SizeSum(gone) + size_mb
               /\ used' = Without(used, goneSet \cup {key}) \o <<key>>
               /\ usedStored' = Without(usedStored, goneSet \cup {key}) \o <<key>>
               /\ lastOp' = [NoOp EXCEPT !.op = "set", !.symbols = l, !.key = key,
                                         !.data = Some(frame),
                                         !.evicted = KeysOf(gone),
                                         !.lru = SubSeq(Without(used, {key}), 1, n),
                                         !.lruStored =
                                             SubSeq(Without(usedStored, {key}), 1, n)]
       /\ UNCHANGED <<cpc, max_size_mb, _hits, _misses, notCacheVars>>

\* clear()
CacheClear ==
    /\ cpc = "ready"
    /\ _cache' = <<>> /\ _sizes' = <<>> /\ _current_size_mb' = 0
    /\ _hits' = 0 /\ _misses' = 0
    /\ used' = <<>> /\ usedStored' = <<>>
    /\ lastOp' = [NoOp EXCEPT !.op = "clear"]
    /\ UNCHANGED <<cpc, max_size_mb, notCacheVars>>

SymbolLists == {<<"A">>, <<"B">>, <<"A", "B">>, <<"B", "A">>}

Dates == {Null}

CacheFrames == [id : 1..2, size_mb : 1..MaxFrameMb]

\* MemoryCache(max_size_mb)
InitCache ==
    /\ NotCacheIdle
    /\ cpc = "ready"
    /\ max_size_mb \in 1..MaxCacheMb
    /\ _cache = <<>> /\ _sizes = <<>> /\ _current_size_mb = 0
    /\ _hits = 0 /\ _misses = 0
    /\ used = <<>> /\ usedStored = <<>> /\ lastOp = NoOp

NextCache ==
    \/ \E l \in SymbolLists, start \in Dates, end \in Dates : CacheGet(l, start, end)
    \/ \E l \in SymbolLists, start \in Dates, end \in Dates, frame \in CacheFrames :
           CacheSet(l, start, end, frame)
    \/ CacheClear

SpecCache == InitCache /\ [][NextCache]_vars

(***************************************************************************)
(* DataService.get_market_data (hermes_data/service.py) over its cache     *)
(* (MemoryCache or PostgresCache) and its provider.  A frame is its number *)
(* of rows.                                                                *)
(***************************************************************************)
\* how a cache.get call can end.  MemoryCache.get finds the entry or not.
\* PostgresCache.get also returns None when its query fails inside its try,
\* and raises when session_factory() fails, which is before its try.
CacheGetOutcomes(kind, entry) ==
    (IF entry = Null THEN {"miss"} ELSE {"hit"})
        \cup (IF kind = "postgres" THEN {"expired", "swallowed", "raised"} ELSE {})

\* how a cache.set call can end.  PostgresCache.set serializes the frame and
\* opens its session before its try.
CacheSetOutcomes(kind) ==
    {"stored", "rejected"}
        \cup (IF kind = "postgres" THEN {"swallowed", "raised"} ELSE {})

LogLoad(hit, status, rows) ==
    Append(loadLog, [cache_hit |-> hit, status |-> status, rows |-> rows])

\* get_market_data, lines 115-130: the cache is asked first
CheckCache ==
    /\ dpc = "called"
    /\ IF use_cache /\ cacheKind # "none"
       THEN \E outcome \in CacheGetOutcomes(cacheKind, cacheEntry) :
              CASE outcome = "hit" ->
                     /\ returned' = cacheEntry
                     /\ loadLog' = LogLoad(TRUE, "SUCCESS", cacheEntry[1])
                     /\ dpc' = "returned"
                     /\ UNCHANGED <<cacheEntry, cacheFault>>
                [] outcome = "miss" ->
                     /\ dpc' = "load"
                     /\ UNCHANGED <<cacheEntry, returned, cacheFault, loadLog>>
                [] outcome = "expired" ->
                     /\ dpc' = "load"
                     /\ cacheEntry' = Null
                     /\ UNCHANGED <<returned, cacheFault, loadLog>>
                [] outcome = "swallowed" ->
                     /\ dpc' = "load"
                     /\ cacheFault' = "get"
                     /\ UNCHANGED <<cacheEntry, returned, loadLog>>
                [] OTHER ->
                     \* the exception leaves cache.get and get_market_data
                     /\ dpc' = "raised"
                     /\ cacheFault' = "get"
                     /\ UNCHANGED <<cacheEntry, returned, loadLog>>
       ELSE /\ dpc' = "load"
            /\ UNCHANGED <<cacheEntry, returned, cacheFault, loadLog>>
    /\ UNCHANGED <<use_cache, cacheKind, providerData, notDataVars>>

\* get_market_data, lines 132-168: load, cache, log, return
LoadFromProvider ==
    /\ dpc = "load"
    /\ IF providerData = Null
       THEN /\ loadLog' = LogLoad(FALSE, "ERROR", 0)
            /\ dpc' = "raised"
            /\ UNCHANGED <<cacheEntry, returned, cacheFault>>
       ELSE IF use_cache /\ cacheKind # "none"
       THEN \E outcome \in CacheSetOutcomes(cacheKind) :
              CASE outcome = "stored" ->
                     /\ cacheEntry' = providerData
                     /\ returned' = providerData
                     /\ loadLog' = LogLoad(FALSE, "SUCCESS", providerData[1])
                     /\ dpc' = "returned"
                     /\ UNCHANGED cacheFault
                [] outcome = "rejected" ->
                     /\ returned' = providerData
                     /\ loadLog' = LogLoad(FALSE, "SUCCESS", providerData[1])
                     /\ dpc' = "returned"
                     /\ UNCHANGED <<cacheEntry, cacheFault>>
                [] outcome = "swallowed" ->
                     /\ returned' = providerData
                     /\ loadLog' = LogLoad(FALSE, "SUCCESS", providerData[1])
                     /\ dpc' = "returned"
                     /\ cacheFault' = IF cacheFault = "none" THEN "set" ELSE cacheFault
                     /\ UNCHANGED cacheEntry
                [] OTHER ->
                     \* caught by `except Exception`, logged and raised again
                     /\ loadLog' = LogLoad(FALSE, "ERROR", 0)
                     /\ dpc' = "raised"
                     /\ cacheFault' = IF cacheFault = "none" THEN "set" ELSE cacheFault
                     /\ UNCHANGED <<cacheEntry, returned>>
       ELSE /\ returned' = providerData
            /\ loadLog' = LogLoad(FALSE, "SUCCESS", providerData[1])
            /\ dpc' = "returned"
            /\ UNCHANGED <<cacheEntry, cacheFault>>
    /\ UNCHANGED <<use_cache, cacheKind, providerData, notDataVars>>

DataFrames == {Null} \cup {Some(n) : n \in 1..MaxFrameRows}

InitData ==
    /\ NotDataIdle
    /\ dpc = "called"
    /\ use_cache \in BOOLEAN
    /\ cacheKind \in {"none", "memory", "postgres"}
    /\ cacheEntry \in DataFrames
    /\ (cacheKind = "none" => cacheEntry = Null)
    /\ providerData \in DataFrames
    /\ returned = <<>> /\ cacheFault = "none" /\ loadLog = <<>>

NextData == CheckCache \/ LoadFromProvider

SpecData == InitData /\ [][NextData]_vars

(***************************************************************************)
(* The data guard of LocalFileProvider.load (hermes_data/providers/        *)
(* local.py) and of DataLoader.load_data (engine/loader.py).  A comparison *)
(* with a null is null, and filter keeps a row only when it is true.       *)
(***************************************************************************)
Positive(cell) == cell # Null /\ cell[1] > 0

CellGe(a, b) == a # Null /\ b # Null /\ a[1] >= b[1]

\* (close > 0) & (open > 0) & (high > 0) & (low > 0)
PricesPositive(r) ==
    Positive(r.close) /\ Positive(r.open) /\ Positive(r.high) /\ Positive(r.low)

\* high is the highest and low the lowest of the bar
IntegrityHolds(r) ==
    /\ CellGe(r.high, r.low) /\ CellGe(r.high, r.open) /\ CellGe(r.high, r.close)
    /\ CellGe(r.open, r.low) /\ CellGe(r.close, r.low)

NoNulls(r) == r.close # Null /\ r.open # Null /\ r.high # Null /\ r.low # Null

\* the data guard of LocalFileProvider.load, lines 88-102
ProviderGuard(rows) ==
    SelectSeq(SelectSeq(SelectSeq(rows, PricesPositive), IntegrityHolds), NoNulls)

\* the data guard of DataLoader.load_data, lines 70-77
LoaderGuard(rows) == SelectSeq(SelectSeq(rows, PricesPositive), NoNulls)

OhlcRows ==
    [open : {Some(0), Some(1), Some(2)}, high : {Null, Some(1), Some(2)},
     low : {Some(0), Some(1), Some(2)}, close : {Null, Some(1), Some(2)}]

\* a row is appended to the parquet file before it is loaded
WriteRow(r) ==
    /\ lpc = "file"
    /\ fileExists
    /\ Len(fileRows) < MaxLoadRows
    /\ fileRows' = Append(fileRows, r)
    /\ UNCHANGED <<lpc, loaderKind, fileExists, loadResult, notLoadVars>>

\* load / load_data for one symbol: no file gives `if not dfs: raise`
Load ==
    /\ lpc = "file"
    /\ lpc' = "loaded"
    /\ loadResult' = IF ~fileExists THEN Null
                     ELSE IF loaderKind = "LocalFileProvider"
                          THEN Some(ProviderGuard(fileRows))
                          ELSE Some(LoaderGuard(fileRows))
    /\ UNCHANGED <<loaderKind, fileExists, fileRows, notLoadVars>>

InitLoad ==
    /\ NotLoadIdle
    /\ lpc = "file"
    /\ loaderKind \in {"LocalFileProvider", "DataLoader"}
    /\ fileExists \in BOOLEAN
    /\ fileRows = <<>> /\ loadResult = <<>>

NextLoad == (\E r \in OhlcRows : WriteRow(r)) \/ Load

SpecLoad == InitLoad /\ [][NextLoad]_vars

(***************************************************************************)
(* The built-in strategies in vector mode (strategies/rsi.py, macd.py,     *)
(* bollinger.py, sma_cross.py).  Closes are whole numbers; an average is   *)
(* kept as a sum times a common scale, so every comparison is exact.       *)
(***************************************************************************)
RECURSIVE Pow(_, _)
Pow(b, e) == IF e = 0 THEN 1 ELSE b * Pow(b, e - 1)

RECURSIVE SumOver(_, _, _)
SumOver(f, a, b) == IF a > b THEN 0 ELSE f[a] + SumOver(f, a + 1, b)

\* polars Expr.forward_fill(): a null takes the last non-null value above it
RECURSIVE ForwardFill(_)
ForwardFill(col) ==
    IF col = <<>> THEN <<>>
    ELSE LET front == ForwardFill(SubSeq(col, 1, Len(col) - 1))
             last  == col[Len(col)]
         IN Append(front, IF last = Null /\ front # <<>> THEN front[Len(front)] ELSE last)

\* the trigger with its nulls set to 0, nothing carried forward
LatchWithoutFill(trigger) == FillNull(trigger, 0)

\* signal_trigger.forward_fill().fill_null(0)
Latch(trigger) == FillNull(ForwardFill(trigger), 0)

\* close.diff(), then gain and loss; the null change of row 0 gives 0 and 0
Gain(close) ==
    [i \in 1..Len(close) |-> IF i > 1 /\ close[i] > close[i - 1]
                            THEN close[i] - close[i - 1] ELSE 0]

Loss(close) ==
    [i \in 1..Len(close) |-> IF i > 1 /\ close[i] < close[i - 1]
                            THEN close[i - 1] - close[i] ELSE 0]

\* ewm_mean(com=period-1) at row t, times the sum of the weights times
\* period^(t-1): the weight of row i is ((period-1)/period)^(t-i)
EwmSum(col, period, t) ==
    SumOver([i \in 1..t |-> Pow(period - 1, t - i) * Pow(period, i - 1) * col[i]], 1, t)

\* RSIStrategy.generate_signals: the trigger column
RsiTrigger(strat, close) ==
    [t \in 1..Len(close) |->
        LET g == EwmSum(Gain(close), strat.period, t)
            l == EwmSum(Loss(close), strat.period, t)
        IN \* min_samples: null before `period` rows, and null or NaN gives 50
           IF t < strat.period \/ (g = 0 /\ l = 0)
           THEN (IF 50 < strat.oversold THEN Some(1)
                 ELSE IF 50 > strat.overbought THEN Some(0) ELSE Null)
           ELSE IF 100 * g < strat.oversold * (g + l) THEN Some(1)
           ELSE IF 100 * g > strat.overbought * (g + l) THEN Some(0)
           ELSE Null]

\* ewm_mean(span=s, adjust=False) at row t, times (s+1)^(t-1)
RECURSIVE EmaScaled(_, _, _)
EmaScaled(col, s, t) ==
    IF t = 1 THEN col[1]
    ELSE (s - 1) * EmaScaled(col, s, t - 1) + 2 * Pow(s + 1, t - 2) * col[t]

\* macd_line at row t, times ((fast+1)(slow+1))^(t-1)
MacdLine(strat, close, t) ==
    Pow(strat.slow_period + 1, t - 1) * EmaScaled(close, strat.fast_period, t)
        - Pow(strat.fast_period + 1, t - 1) * EmaScaled(close, strat.slow_period, t)

\* signal_line at row t, times ((fast+1)(slow+1)(signal+1))^(t-1)
RECURSIVE SignalLine(_, _, _)
SignalLine(strat, close, t) ==
    IF t = 1 THEN MacdLine(strat, close, 1)
    ELSE (strat.signal_period - 1) * (strat.fast_period + 1) * (strat.slow_period + 1)
               * SignalLine(strat, close, t - 1)
           + 2 * Pow(strat.signal_period + 1, t - 2) * MacdLine(strat, close, t)

\* MACDStrategy.generate_signals: the trigger column
MacdTrigger(strat, close) ==
    [t \in 1..Len(close) |->
        LET m == Pow(strat.signal_period + 1, t - 1) * MacdLine(strat, close, t)
            z == SignalLine(strat, close, t)
        IN IF m > z THEN Some(1) ELSE IF m < z THEN Some(0) ELSE Null]

\* the sum of the last n rows up to row t
WindowSum(col, n, t) == SumOver(col, t - n + 1, t)

\* BollingerBandsStrategy.generate_signals: the trigger column.  With
\* S the window sum, Q the sum of squares and n the period, close < bb_lower
\* iff S - n*close > 0 and (S - n*close)^2 (n-1) > std_dev^2 n (nQ - S^2)
BollingerTrigger(strat, close) ==
    [t \in 1..Len(close) |->
        IF t < strat.period THEN Null
        ELSE LET n == strat.period
                 S == WindowSum(close, n, t)
                 Q == WindowSum([i \in 1..Len(close) |-> close[i] * close[i]], n, t)
                 d == S - n * close[t]
                 spread == strat.std_dev * strat.std_dev * n * (n * Q - S * S)
             IN IF d > 0 /\ d * d * (n - 1) > spread THEN Some(1)
                ELSE IF d < 0 /\ d * d * (n - 1) > spread THEN Some(0)
                ELSE Null]

\* SMACrossover.generate_signals: 1 iff both means exist and fast > slow
SmaSignal(strat, close) ==
    [t \in 1..Len(close) |->
        IF /\ t >= strat.fast_period /\ t >= strat.slow_period
           /\ WindowSum(close, strat.fast_period, t) * strat.slow_period
                 > WindowSum(close, strat.slow_period, t) * strat.fast_period
        THEN 1 ELSE 0]

\* generate_signals of a built-in strategy: with_columns keeps every row
BuiltinSignals(strat, df) ==
    LET trigger == CASE strat.kind = "rsi" -> RsiTrigger(strat, df.close)
                     [] strat.kind = "macd" -> MacdTrigger(strat, df.close)
                     [] strat.kind = "bollinger" -> BollingerTrigger(strat, df.close)
                     [] OTHER -> <<>>
    IN [ok |-> TRUE, timestamp |-> df.timestamp, close |-> df.close,
        trigger |-> trigger,
        signal |-> IF strat.kind = "sma" THEN SmaSignal(strat, df.close)
                   ELSE Latch(trigger)]

BuiltinStrategies ==
    {[kind |-> "rsi", period |-> p, oversold |-> lo, overbought |-> 70] :
        p \in {2, 3}, lo \in {30, 60}}
    \cup {[kind |-> "macd", fast_period |-> 1, slow_period |-> 3, signal_period |-> g] :
        g \in {1, 3}}
    \cup {[kind |-> "bollinger", period |-> p, std_dev |-> 1] : p \in {2, 3}}
    \cup {[kind |-> "sma", fast_period |-> 1, slow_period |-> sl] : sl \in {2, 3}}

StrategyPrices == {1, 2, 4}

StrategyFrames ==
    {[timestamp |-> [i \in 1..Len(c) |-> i - 1], close |-> c] :
        c \in SeqsUpTo(StrategyPrices, MaxBars)}

InitStrategies ==
    /\ SinkIdle /\ SyncIdle /\ ResumeIdle /\ LaterIdle
    /\ vpc = "ready"
    /\ data \in StrategyFrames
    /\ strategy \in BuiltinStrategies
    /\ timeframe = 1
    /\ result = NoResult

\* strategy.generate_signals(df)
DoGenerateSignals ==
    /\ vpc = "ready"
    /\ result' = BuiltinSignals(strategy, data)
    /\ vpc' = "signals_done"
    /\ UNCHANGED <<data, strategy, timeframe, sinkVars, syncVars, resumeVars, laterVars>>

NextStrategies == DoGenerateSignals

SpecStrategies == InitStrategies /\ [][NextStrategies]_vars

(***************************************************************************)
(* The event-driven engine with an on_bar strategy, a PortfolioManager and *)
(* a VolumeAwareExecutionHandler on one bus, for one symbol.  Prices,      *)
(* quantities and cash are whole numbers, percentages are whole percents.  *)
(* The handler is built with slippage 0, so a MARKET order fills at the    *)
(* close.  The logs (fills_log, equity_history, total_cost, the handler's  *)
(* counters) are written and never read, and are left out.                 *)
(***************************************************************************)
\* Python round(n / d) for d > 0: to the nearest, a tie to the even side
Round(n, d) ==
    LET f == n \div d
        r == n - f * d
    IN IF 2 * r < d THEN f
       ELSE IF 2 * r > d THEN f + 1
       ELSE IF f % 2 = 0 THEN f ELSE f + 1

Evt(type, kind, quantity, price, commission, volume) ==
    [type |-> type, kind |-> kind, quantity |-> quantity, price |-> price,
     commission |-> commission, volume |-> volume]

MarketEvent(close, volume) == Evt("market", "", 0, close, 0, volume)
SignalEvent(signal_type) == Evt("signal", signal_type, 0, 0, 0, 0)
OrderEvent(direction, quantity) == Evt("order", direction, quantity, 0, 0, 0)
FillEvent(direction, quantity, fill_cost, commission) ==
    Evt("fill", direction, quantity, fill_cost, commission, 0)

\* RiskParams, the fractions in percent
RiskParams(tp) ==
    [sizing_method |-> tp.sizing_method, fixed_quantity |-> 2, pct_equity |-> 2,
     max_position_pct |-> 25, stop_loss_pct |-> 5]

\* the handler's arguments: commission per unit, max_participation_rate 1/10
ExecutionParams == [slippage |-> 0, commission |-> 1, participation_div |-> 10]

\* Position.is_open
IsOpen(p) == p.quantity # 0

\* PortfolioManager.equity
Equity(c, p, lp) == c + p.quantity * (IF lp = Null THEN p.avg_entry_price ELSE lp[1])

\* PortfolioManager._calculate_quantity
CalculateQuantity(rp, equity, price) ==
    CASE rp.sizing_method = "fixed" -> rp.fixed_quantity
      [] rp.sizing_method = "pct_equity" ->
            Max(1, IF price > 0 THEN Round(equity * rp.pct_equity, 100 * price) ELSE 0)
      [] rp.sizing_method = "atr_based" ->
            Max(1, IF price * rp.stop_loss_pct > 0
                   THEN Round(equity * rp.pct_equity, price * rp.stop_loss_pct) ELSE 0)
      [] OTHER -> rp.fixed_quantity

\* PortfolioManager._check_max_position_limit
CheckMaxPositionLimit(rp, equity, p, quantity, price) ==
    LET max_additional100 == equity * rp.max_position_pct - 100 * p.quantity * price
    IN IF max_additional100 <= 0 THEN 0
       ELSE Min(quantity,
                Max(1, IF price > 0 THEN Round(max_additional100, 100 * price) ELSE 0))

\* PortfolioManager.on_signal: the events it publishes
OnSignal(rp, event, c, p, lp) ==
    LET price  == IF lp = Null THEN 0 ELSE lp[1]
        equity == Equity(c, p, lp)
    IN IF event.kind = "LONG" /\ ~IsOpen(p)
       THEN LET sized == CheckMaxPositionLimit(rp, equity, p,
                             CalculateQuantity(rp, equity, price), price)
            IN IF sized > 0 /\ price > 0
               THEN LET qty == IF sized * price > c
                               THEN Max(1, Round(c, price) - 1) ELSE sized
                    IN IF qty <= 0 THEN <<>> ELSE <<OrderEvent("BUY", qty)>>
               ELSE <<>>
       ELSE IF event.kind = "EXIT" /\ IsOpen(p) /\ p.quantity > 0
       THEN <<OrderEvent("SELL", p.quantity)>>
       ELSE IF event.kind = "SHORT" /\ ~IsOpen(p)
       THEN LET qty == CalculateQuantity(rp, equity, price)
            IN IF qty > 0 /\ price > 0 THEN <<OrderEvent("SELL", qty)>> ELSE <<>>
       ELSE <<>>

\* on_fill taking the fill price as the new average entry
OnFillLastPrice(event, c, p) ==
    IF event.kind = "BUY"
    THEN [cash |-> c - (event.quantity * event.price + event.commission),
          position |-> [p EXCEPT !.quantity = @ + event.quantity,
                                 !.avg_entry_price = event.price]]
    ELSE [cash |-> c, position |-> p]

\* PortfolioManager.on_fill: the cash and the position after it.  Prices are
\* whole numbers: the callers pass fills whose average entry divides exactly.
OnFill(event, c, p) ==
    IF event.kind = "BUY"
    THEN LET new_qty == p.quantity + event.quantity
         IN [cash |-> c - (event.quantity * event.price + event.commission),
             position |->
                [p EXCEPT !.quantity = new_qty,
                          !.avg_entry_price =
                              IF new_qty > 0
                              THEN (p.avg_entry_price * p.quantity
                                       + event.price * event.quantity) \div new_qty
                              ELSE @]]
    ELSE IF event.kind = "SELL"
    THEN LET left == p.quantity - event.quantity
             pnl  == (event.price - p.avg_entry_price) * event.quantity - event.commission
         IN [cash |-> c + (event.quantity * event.price - event.commission),
             position |->
                [quantity |-> IF left <= 0 THEN 0 ELSE left,
                 avg_entry_price |-> IF left <= 0 THEN 0 ELSE p.avg_entry_price,
                 realized_pnl |-> p.realized_pnl + pnl]]
    ELSE [cash |-> c, position |-> p]

\* the stop-loss test of PortfolioManager.on_bar:
\* (close - avg_entry_price) / avg_entry_price < -stop_loss_pct
StopLossHit(rp, close, p) ==
    /\ IsOpen(p) /\ p.quantity > 0
    /\ (close - p.avg_entry_price) * 100 < (0 - rp.stop_loss_pct) * p.avg_entry_price

\* PortfolioManager.on_bar: the events it publishes
PortfolioOnBar(rp, event, p) ==
    IF StopLossHit(rp, event.price, p) THEN <<OrderEvent("SELL", p.quantity)>> ELSE <<>>

\* VolumeAwareExecutionHandler._calculate_fill_quantity
CalculateFillQuantity(xp, requested_qty, last_volume) ==
    IF last_volume <= 0 THEN requested_qty
    ELSE Min(requested_qty, Max(1, last_volume \div xp.participation_div))

\* VolumeAwareExecutionHandler.on_order for a MARKET order: the events it
\* publishes; with slippage 0 the fill price is the base price
OnOrder(xp, event, ex) ==
    IF ex.last_price <= 0 THEN <<>>
    ELSE LET fill_qty == CalculateFillQuantity(xp, event.quantity, ex.last_volume)
         IN <<FillEvent(event.kind, fill_qty, ex.last_price, xp.commission * fill_qty)>>

Oversold == 30
Overbought == 70

\* RSIStrategy.on_bar, steps 1 to 4: the averages after the bar
RsiAverages(st, period, close) ==
    IF st.last_close = Null THEN [st EXCEPT !.last_close = Some(close)]
    ELSE LET delta == close - st.last_close[1]
             gain  == Max(delta, 0)
             loss  == Max(0 - delta, 0)
         IN IF ~st.initialized
            THEN \* the sums of gains and losses; the first average is the sum / period
                 [st EXCEPT !.last_close = Some(close),
                            !.gains_len = @ + 1,
                            !.avg_gain = @ + gain,
                            !.avg_loss = @ + loss,
                            !.scale = period,
                            !.initialized = (st.gains_len + 1 = period)]
            ELSE \* Wilder's smoothing
                 [st EXCEPT !.last_close = Some(close),
                            !.avg_gain = @ * (period - 1) + gain * st.scale,
                            !.avg_loss = @ * (period - 1) + loss * st.scale,
                            !.scale = @ * period]

\* RSIStrategy.on_bar, step 5: "LONG", "EXIT" or "" from the averages;
\* rsi = 100 when avg_loss = 0, else 100 * avg_gain / (avg_gain + avg_loss)
RsiSignal(st) ==
    LET g == st.avg_gain
        l == st.avg_loss
        below == l # 0 /\ 100 * g < Oversold * (g + l)
        above == l = 0 \/ 100 * g > Overbought * (g + l)
    IN IF ~st.initialized THEN ""
       ELSE IF below /\ st.flag = 0 THEN "LONG"
       ELSE IF above /\ st.flag = 1 THEN "EXIT"
       ELSE ""

\* RSIStrategy.on_bar: the strategy after the bar
RsiOnBar(st, period, close) ==
    LET after == RsiAverages(st, period, close)
        sig   == RsiSignal(after)
    IN [after EXCEPT !.flag = IF sig = "LONG" THEN 1 ELSE IF sig = "EXIT" THEN 0 ELSE @]

Published(sig) == IF sig = "" THEN <<>> ELSE <<SignalEvent(sig)>>

EventPrices == {10, 19, 20, 40}
EventVolumes == {0, 10}

TradeParams ==
    [strategy : {"rsi"}, period : {1, 2}, strategy_first : BOOLEAN,
     initial_cash : {15, 1000}, sizing_method : {"fixed", "pct_equity"}]
    \cup [strategy : {"scripted"}, period : {1}, strategy_first : BOOLEAN,
          initial_cash : {15, 1000}, sizing_method : {"fixed", "pct_equity"}]

\* the engine, the strategy, the portfolio and the handler are built and wired
InitTrade ==
    /\ NotTradeIdle
    /\ tpc = "run"
    /\ trade_params \in TradeParams
    /\ bus_queue = <<>> /\ bars = 0
    /\ cash = trade_params.initial_cash
    /\ holding = FlatPosition /\ last_prices = Null
    /\ exec_last = [last_price |-> 0, last_volume |-> 0]
    /\ rsi_strategy = NewStrategy /\ bought = 0 /\ sold = 0
    /\ last_dispatch = NoDispatch

BarBudget == IF trade_params.strategy = "rsi" THEN MaxEventBars ELSE MaxScriptedBars

\* EventEngine.run: the queue is drained, the next bar is pulled and published
PullBar ==
    /\ tpc = "run" /\ bus_queue = <<>> /\ bars < BarBudget
    /\ \E close \in EventPrices, volume \in EventVolumes :
          bus_queue' = <<MarketEvent(close, volume)>>
    /\ bars' = bars + 1
    /\ UNCHANGED <<tpc, trade_params, cash, holding, last_prices, exec_last, rsi_strategy,
                   bought, sold, last_dispatch>>
    /\ UNCHANGED notTradeVars

Dispatched(type) == tpc = "run" /\ bus_queue # <<>> /\ Head(bus_queue).type = type

\* process_next of a MarketEvent: strategy.on_bar, portfolio.on_bar and the
\* handler's on_bar, in subscription order
ProcessMarket ==
    /\ Dispatched("market")
    /\ LET event == Head(bus_queue)
           stop  == PortfolioOnBar(RiskParams(trade_params), event, holding)
       IN /\ \E sig \in (IF trade_params.strategy = "rsi"
                         THEN {RsiSignal(RsiAverages(rsi_strategy, trade_params.period,
                                                     event.price))}
                         ELSE {"", "LONG", "EXIT", "SHORT"}) :
                bus_queue' = Tail(bus_queue) \o
                    (IF trade_params.strategy_first THEN Published(sig) \o stop
                     ELSE stop \o Published(sig))
          /\ rsi_strategy' = IF trade_params.strategy = "rsi"
                             THEN RsiOnBar(rsi_strategy, trade_params.period, event.price)
                             ELSE rsi_strategy
          /\ last_prices' = Some(event.price)
          /\ exec_last' = [last_price |-> event.price, last_volume |-> event.volume]
          /\ last_dispatch' = [event |-> event, cash |-> cash, position |-> holding,
                               published |-> stop]
    /\ UNCHANGED <<tpc, trade_params, bars, cash, holding, bought, sold>>
    /\ UNCHANGED notTradeVars

\* process_next of a SignalEvent: portfolio.on_signal
ProcessSignal ==
    /\ Dispatched("signal")
    /\ LET event  == Head(bus_queue)
           orders == OnSignal(RiskParams(trade_params), event, cash, holding, last_prices)
       IN /\ bus_queue' = Tail(bus_queue) \o orders
          /\ last_dispatch' = [event |-> event, cash |-> cash, position |-> holding,
                               published |-> orders]
    /\ UNCHANGED <<tpc, trade_params, bars, cash, holding, last_prices, exec_last,
                   rsi_strategy, bought, sold>>
    /\ UNCHANGED notTradeVars

\* process_next of an OrderEvent: the handler's on_order
ProcessOrder ==
    /\ Dispatched("order")
    /\ LET event == Head(bus_queue)
       IN /\ bus_queue' = Tail(bus_queue) \o OnOrder(ExecutionParams, event, exec_last)
          /\ last_dispatch' = [event |-> event, cash |-> cash, position |-> holding,
                               published |-> <<>>]
    /\ UNCHANGED <<tpc, trade_params, bars, cash, holding, last_prices, exec_last,
                   rsi_strategy, bought, sold>>
    /\ UNCHANGED notTradeVars

\* a strategy whose on_fill answers every fill with an EXIT signal
FillListenersExit(event) == <<SignalEvent("EXIT")>>

\* what the FillEvent listeners publish: Strategy.on_fill is `pass` and
\* PortfolioManager.on_fill has no publish
FillListenersPublish(event) == <<>>

\* process_next of a FillEvent: strategy.on_fill (a no-op) and portfolio.on_fill
ProcessFill ==
    /\ Dispatched("fill")
    /\ LET event == Head(bus_queue)
           after == OnFill(event, cash, holding)
       IN /\ bus_queue' = Tail(bus_queue) \o FillListenersPublish(event)
          /\ cash' = after.cash
          /\ holding' = after.position
          /\ bought' = IF event.kind = "BUY" THEN bought + event.quantity ELSE bought
          /\ sold' = IF event.kind = "SELL" THEN sold + event.quantity ELSE sold
          /\ last_dispatch' = [event |-> event, cash |-> cash, position |-> holding,
                               published |-> <<>>]
    /\ UNCHANGED <<tpc, trade_params, bars, last_prices, exec_last, rsi_strategy>>
    /\ UNCHANGED notTradeVars

NextTrade == PullBar \/ ProcessMarket \/ ProcessSignal \/ ProcessOrder \/ ProcessFill

SpecTrade == InitTrade /\ [][NextTrade]_vars

\* process_all keeps calling process_next while the queue is not empty
ProcessNextTrade == ProcessMarket \/ ProcessSignal \/ ProcessOrder \/ ProcessFill

SpecTradeFair == SpecTrade /\ WF_vars(ProcessNextTrade)

(***************************************************************************)
(* PortfolioManager.on_fill (engine/portfolio.py) as a function of the    *)
(* portfolio and the fill, for two symbols.                                *)
(***************************************************************************)
FillSymbols == {"AAA", "BBB"}

\* PortfolioManager._get_position: the Position of the symbol, created flat
GetPosition(ps, sym) == IF sym \in DOMAIN ps THEN ps[sym] ELSE FlatPosition

\* on_fill for the symbol of the event: the cash and the positions after it
PortfolioOnFill(sym, event, c, ps) ==
    LET after == OnFill(event, c, GetPosition(ps, sym))
    IN [cash |-> after.cash,
        positions |-> [s \in DOMAIN ps \cup {sym} |->
                          IF s = sym THEN after.position ELSE ps[s]]]

FillPrices == {10, 20, 40}

HeldPositions ==
    {FlatPosition} \cup
    [quantity : 1..MaxFillQty, avg_entry_price : FillPrices, realized_pnl : {0, 5}]

Portfolios ==
    UNION {[held -> HeldPositions] : held \in SUBSET FillSymbols}

Fills ==
    {FillEvent(dir, q, p, c) : dir \in {"BUY", "SELL"}, q \in 1..MaxFillQty,
                               p \in FillPrices, c \in {0, 1}}

\* the average entry after the fill is a whole number
AverageIsWhole(event, p) ==
    event.kind = "BUY" =>
        (p.avg_entry_price * p.quantity + event.price * event.quantity)
            % (p.quantity + event.quantity) = 0

InitFill ==
    /\ NotFillIdle
    /\ fpc = "ready"
    /\ fill_cash \in {0, 100}
    /\ fill_positions \in Portfolios
    /\ fill_event \in [symbol : FillSymbols, event : Fills]
    /\ AverageIsWhole(fill_event.event, GetPosition(fill_positions, fill_event.symbol))
    /\ fill_before = <<>>

\* portfolio.on_fill(event)
DoOnFill ==
    /\ fpc = "ready"
    /\ LET after == PortfolioOnFill(fill_event.symbol, fill_event.event, fill_cash,
                                    fill_positions)
       IN /\ fill_cash' = after.cash
          /\ fill_positions' = after.positions
    /\ fill_before' = Some([cash |-> fill_cash, positions |-> fill_positions])
    /\ fpc' = "filled"
    /\ UNCHANGED fill_event
    /\ UNCHANGED notFillVars

NextFill == DoOnFill

SpecFill == InitFill /\ [][NextFill]_vars

(***************************************************************************)
(* VolumeAwareExecutionHandler (engine/execution.py) with slippage and     *)
(* LIMIT orders.  Slippage is in percent; the volumes and quantities drawn *)
(* make fill_qty / last_volume a square of tenths, so the square-root      *)
(* impact is a whole number of tenths and every price stays whole.         *)
(***************************************************************************)
\* the square root of a perfect square
Isqrt(n) == CHOOSE r \in 0..n : r * r = n

\* participation ** 0.5 in tenths, participation = fill_qty / last_volume
SqrtParticipationTenths(fill_qty, last_volume) == Isqrt((100 * fill_qty) \div last_volume)

\* VolumeAwareExecutionHandler._calculate_slippage: the fill price; the
\* impact is slippage * sqrt(participation), or slippage at no participation
CalculateSlippage(h, base_price, fill_qty, direction) ==
    LET impact1000 == IF h.last_volume > 0 /\ fill_qty > 0
                      THEN h.slippage * SqrtParticipationTenths(fill_qty, h.last_volume)
                      ELSE h.slippage * 10
        shift      == (base_price * impact1000) \div 1000
    IN IF direction = "BUY"
       THEN (IF h.last_high > 0 THEN Min(base_price + shift, h.last_high)
             ELSE base_price + shift)
       ELSE (IF h.last_low > 0 THEN Max(base_price - shift, h.last_low)
             ELSE base_price - shift)

\* an order: limit_price 0 stands for None
Order(order_type, direction, quantity, limit_price) ==
    [order_type |-> order_type, direction |-> direction, quantity |-> quantity,
     limit_price |-> limit_price]

\* VolumeAwareExecutionHandler.on_order: the handler after it and the fill
\* it published, if any
HandlerOnOrder(h, xp, order) ==
    LET counted  == [h EXCEPT !.total_orders = @ + 1]
        rejected == [handler |-> [counted EXCEPT !.total_rejected = @ + 1],
                     fill |-> Null]
        limited  == order.order_type = "LIMIT" /\ order.limit_price # 0
        base     == IF limited THEN order.limit_price ELSE h.last_price
    IN IF limited /\ order.direction = "BUY" /\ order.limit_price < h.last_low
       THEN rejected
       ELSE IF limited /\ order.direction = "SELL" /\ order.limit_price > h.last_high
       THEN rejected
       ELSE IF base <= 0 THEN rejected
       ELSE LET fill_qty == CalculateFillQuantity(xp, order.quantity, h.last_volume)
                price    == CalculateSlippage(h, base, fill_qty, order.direction)
            IN [handler |->
                   [counted EXCEPT !.total_fills = @ + 1,
                                   !.total_partial_fills =
                                       IF fill_qty < order.quantity THEN @ + 1 ELSE @],
                fill |-> Some(FillEvent(order.direction, fill_qty, price,
                                        xp.commission * fill_qty))]

ExecPrices == {1000, 2000}

\* the bars: low <= close <= high
ExecBars ==
    {b \in [close : ExecPrices, high : ExecPrices, low : ExecPrices, volume : {0, 100}] :
        b.low <= b.close /\ b.close <= b.high}

ExecOrders ==
    {Order("MARKET", dir, q, 0) : dir \in {"BUY", "SELL"}, q \in {1, 4}}
    \cup {Order("LIMIT", dir, q, lim) : dir \in {"BUY", "SELL"}, q \in {1, 4},
                                        lim \in ExecPrices}

\* VolumeAwareExecutionHandler(bus, slippage=...)
InitExec ==
    /\ NotExecIdle
    /\ xpc = "ready"
    /\ \E s \in {0, 10} : handler = [NewHandler EXCEPT !.slippage = s]
    /\ order_seen = Null /\ fill_out = Null /\ exec_calls = 0

\* VolumeAwareExecutionHandler.on_bar
ExecOnBar ==
    /\ xpc = "ready" /\ exec_calls < MaxExecCalls
    /\ \E b \in ExecBars :
          handler' = [handler EXCEPT !.last_price = b.close, !.last_volume = b.volume,
                                     !.last_high = b.high, !.last_low = b.low]
    /\ order_seen' = Null /\ fill_out' = Null
    /\ exec_calls' = exec_calls + 1
    /\ UNCHANGED xpc
    /\ UNCHANGED notExecVars

\* VolumeAwareExecutionHandler.on_order
ExecOnOrder ==
    /\ xpc = "ready" /\ exec_calls < MaxExecCalls
    /\ \E order \in ExecOrders :
          LET after == HandlerOnOrder(handler, ExecutionParams, order)
          IN /\ handler' = after.handler
             /\ order_seen' = Some(order)
             /\ fill_out' = after.fill
    /\ exec_calls' = exec_calls + 1
    /\ UNCHANGED xpc
    /\ UNCHANGED notExecVars

NextExec == ExecOnBar \/ ExecOnOrder

SpecExec == InitExec /\ [][NextExec]_vars

(***************************************************************************)
(* PostgresCache (hermes_data/cache/postgres.py).  A call runs in one      *)
(* session and one transaction; the clock is in hours and no two calls     *)
(* read the same time.  A payload is the number of the call that stored it. *)
(***************************************************************************)
PgKeys == {"k1", "k2", "k3"}

TtlHours == 24

\* hours that pass before a call reads the clock: two calls later an entry
\* is at its expiry or past it
PgElapsed == {12, 13}

\* Database.session_factory: sessionmaker(..., autoflush=False)
Autoflush == FALSE

PgNoOp ==
    [op |-> "none", key |-> "", size |-> 0, value |-> 0, returned |-> <<>>,
     stored |-> FALSE, failed |-> FALSE, before |-> <<>>, at |-> 0, misses |-> 0]

\* DataFrameCache(...) as set builds it at time t
PgRow(size_mb, t, value) ==
    [payload |-> value, payload_size_mb |-> size_mb, last_accessed_at |-> t,
     expires_at |-> t + TtlHours]

PgRestrict(rows, keep) == [k \in keep |-> rows[k]]

\* DataFrameCache.expires_at < datetime.now(timezone.utc)
PgExpired(rows, t) == {k \in DOMAIN rows : rows[k].expires_at < t}

\* SELECT COALESCE(SUM(payload_size_mb), 0) FROM dataframe_cache
RECURSIVE PgTotalSize(_)
PgTotalSize(rows) ==
    IF DOMAIN rows = {} THEN 0
    ELSE LET k == CHOOSE x \in DOMAIN rows : TRUE
         IN rows[k].payload_size_mb + PgTotalSize(PgRestrict(rows, DOMAIN rows \ {k}))

\* query(DataFrameCache).order_by(last_accessed_at.asc()).first() over the
\* rows the query can see
PgOldest(rows, visible) ==
    CHOOSE k \in visible :
        \A j \in visible : rows[k].last_accessed_at <= rows[j].last_accessed_at

\* the while loop of set: the keys passed to session.delete.  The DELETEs
\* are sent when the session flushes: before the next query with autoflush,
\* at commit without it, and until then the query still finds the rows.
RECURSIVE PgEvictLoop(_, _, _, _, _)
PgEvictLoop(rows, deleted, total_size, size_mb, flush) ==
    IF total_size + size_mb <= pg_max THEN deleted
    ELSE LET visible == IF flush THEN DOMAIN rows \ deleted ELSE DOMAIN rows
         IN IF visible = {} THEN deleted
            ELSE LET oldest == PgOldest(rows, visible)
                 IN PgEvictLoop(rows, deleted \cup {oldest},
                                total_size - rows[oldest].payload_size_mb, size_mb, flush)

\* PostgresCache.get; `fails`: a statement or the commit raises
PgGet(key, elapsed, fails) ==
    /\ pgpc = "ready"
    /\ pg_calls < MaxPgCalls
    /\ pg_calls' = pg_calls + 1
    /\ pg_clock' = pg_clock + elapsed
    /\ LET t       == pg_clock + elapsed
           present == key \in DOMAIN pg_rows
           expired == present /\ pg_rows[key].expires_at < t
           hit     == present /\ ~expired /\ ~fails
       IN /\ pg_rows' = IF fails \/ ~present THEN pg_rows
                        ELSE IF expired
                        THEN PgRestrict(pg_rows, DOMAIN pg_rows \ {key})
                        ELSE [pg_rows EXCEPT ![key].last_accessed_at = t]
          /\ pg_hits' = IF hit THEN pg_hits + 1 ELSE pg_hits
          /\ pg_misses' = IF hit THEN pg_misses ELSE pg_misses + 1
          /\ pg_last' = [op |-> "get", key |-> key, size |-> 0, value |-> 0,
                         returned |-> IF hit THEN <<pg_rows[key].payload>> ELSE <<>>,
                         stored |-> FALSE, failed |-> fails /\ present,
                         before |-> pg_rows, at |-> t, misses |-> pg_misses]
    /\ UNCHANGED <<pgpc, pg_max, notPgVars>>

\* PostgresCache.set; `fails`: a statement or the commit raises
PgSet(key, size_mb, elapsed, fails) ==
    /\ pgpc = "ready"
    /\ pg_calls < MaxPgCalls
    /\ pg_calls' = pg_calls + 1
    /\ pg_clock' = pg_clock + elapsed
    /\ LET t       == pg_clock + elapsed
           value   == pg_calls + 1
           tried   == size_mb <= pg_max
           kept    == PgRestrict(pg_rows,
                                 DOMAIN pg_rows \ ({key} \cup PgExpired(pg_rows, t)))
           deleted == PgEvictLoop(kept, {}, PgTotalSize(kept), size_mb, Autoflush)
       IN /\ pg_rows' = IF tried /\ ~fails
                        THEN [k \in (DOMAIN kept \ deleted) \cup {key} |->
                                 IF k = key THEN PgRow(size_mb, t, value) ELSE kept[k]]
                        ELSE pg_rows
          /\ pg_last' = [op |-> "set", key |-> key, size |-> size_mb, value |-> value,
                         returned |-> <<>>, stored |-> tried /\ ~fails,
                         failed |-> tried /\ fails,
                         before |-> pg_rows, at |-> t, misses |-> pg_misses]
    /\ UNCHANGED <<pgpc, pg_max, pg_hits, pg_misses, notPgVars>>

InitPg ==
    /\ NotPgIdle
    /\ pgpc = "ready"
    /\ pg_max \in 1..MaxCacheMb
    /\ pg_rows = <<>> /\ pg_clock = 0 /\ pg_hits = 0 /\ pg_misses = 0 /\ pg_calls = 0
    /\ pg_last = PgNoOp

NextPg ==
    \/ \E key \in PgKeys, elapsed \in PgElapsed, fails \in BOOLEAN :
          PgGet(key, elapsed, fails)
    \/ \E key \in PgKeys, size_mb \in 1..MaxFrameMb, elapsed \in PgElapsed, fails \in BOOLEAN :
          PgSet(key, size_mb, elapsed, fails)

SpecPg == InitPg /\ [][NextPg]_vars

(***************************************************************************)
(* SpecVector                                                              *)
(***************************************************************************)
Prices == {90, 110}
SignalValues == {Null, Some(0), Some(1)}

Frames ==
    {[timestamp |-> [i \in 1..Len(c) |-> i - 1], close |-> c,
      signal |-> [i \in 1..Len(c) |-> Null], hasSignal |-> FALSE, raised |-> FALSE] :
        c \in SeqsUpTo(Prices, MaxBars)}

\* the strategies a run on frame df is tried with
StrategiesFor(df) ==
    {[kind |-> "threshold", at |-> 0, sig |-> <<>>],
     [kind |-> "nosignal", at |-> 0, sig |-> <<>>]}
    \cup {[kind |-> "at_timestamp", at |-> p, sig |-> <<>>] : p \in 0..(MaxBars - 1)}
    \cup {[kind |-> "table", at |-> 0, sig |-> s] :
             s \in {q \in SeqsUpTo(SignalValues, Len(df.close)) : Len(q) = Len(df.close)}}

InitVector ==
    /\ SinkIdle /\ SyncIdle /\ ResumeIdle /\ LaterIdle
    /\ vpc = "ready"
    /\ data \in Frames
    /\ strategy \in StrategiesFor(data)
    /\ timeframe \in 1..MaxTf
    /\ result = NoResult

\* engine.run(strategy, df) called directly on the input frame
DoEngineRun ==
    /\ vpc = "ready"
    /\ result' = EngineRun(strategy, data)
    /\ vpc' = "engine_done"
    /\ UNCHANGED <<data, strategy, timeframe, sinkVars, syncVars, resumeVars, laterVars>>

\* BacktestService.run_backtest in vector mode
DoRunBacktest ==
    /\ vpc = "ready"
    /\ result' = RunBacktest(strategy, data, timeframe)
    /\ vpc' = "backtest_done"
    /\ UNCHANGED <<data, strategy, timeframe, sinkVars, syncVars, resumeVars, laterVars>>

NextVector == DoEngineRun \/ DoRunBacktest

SpecVector == InitVector /\ [][NextVector]_vars

(***************************************************************************)
(* Claims on the vector backtest                                           *)
(***************************************************************************)
\* the frame BacktestEngine.run was called with in the finished run
EngineInput ==
    IF vpc = "engine_done" THEN data ELSE ExecutionFrame(strategy, data, timeframe)

\* C1: in BacktestEngine.run, whenever the strategy output has a signal
\* column, position is 0 at row 0 and equals the previous row's signal
\* (null counted as 0) at every later row, and strategy_return is 0 at row 0.
C1_PositionIsPreviousSignal ==
    (vpc \in {"engine_done", "backtest_done"} /\ result.ok) =>
        LET sig == GenerateSignals(strategy, EngineInput).signal
            n   == Len(EngineInput.close)
        IN /\ Len(result.position) = n
           /\ \A T \in 1..n :
                 result.position[T] =
                    IF T = 1 \/ sig[T - 1] = Null THEN 0 ELSE sig[T - 1][1]
           /\ n >= 1 => result.strategy_return[1][1] = 0

\* a direct engine run whose first signal is 1: row 0 stays flat, row 1 is
\* long and the market moved on row 1
C1_Witness ==
    /\ vpc = "engine_done" /\ result.ok
    /\ Len(result.position) >= 3
    /\ result.signal[1] = Some(1) /\ result.signal[2] = Null
    /\ result.position[1] = 0 /\ result.position[2] = 1 /\ result.position[3] = 0
    /\ result.market_return[2][1] # 0

\* the strategy's output on the analysis frame of input frame df
AnalysisResult(df) == GenerateSignals(strategy, ResampleData(df, timeframe))

\* input frame d2 differs from the run's input only inside analysis bar k,
\* and so do the analysis signals
DiffersOnlyOnBar(d2, k) ==
    LET a1 == AnalysisResult(data)
        a2 == AnalysisResult(d2)
    IN /\ d2.timestamp = data.timestamp
       /\ \A i \in 1..Len(data.close) :
             BarLabel(data.timestamp[i], timeframe) # a1.timestamp[k]
                => d2.close[i] = data.close[i]
       /\ a1.signal[k] # a2.signal[k]
       /\ \A j \in 1..Len(a1.signal) : j # k => a1.signal[j] = a2.signal[j]

\* C2: in vector mode with an analysis timeframe above the execution
\* timeframe, the signal of the analysis bar labelled H does not influence
\* position on any execution bar earlier than H + tf: a run that differs only
\* in that bar (and so in that bar's signal) has the same positions there, and
\* with 'signal = 1 iff close > 100' a position is only held on an execution
\* bar at or after H + tf for some analysis bar H whose signal is 1 (one
\* analysis bar at 90 then one at 110: no trade).
C2_NoInfluenceBeforeBarClose ==
    (vpc = "backtest_done" /\ timeframe > 1 /\ result.ok) =>
        LET a == AnalysisResult(data)
        IN /\ \A k \in 1..Len(a.signal) :
                \A d2 \in Frames :
                    DiffersOnlyOnBar(d2, k) =>
                        LET r2 == RunBacktest(strategy, d2, timeframe)
                        IN \A i \in 1..Len(result.position) :
                              result.timestamp[i] < a.timestamp[k] + timeframe
                                 => r2.position[i] = result.position[i]
           /\ strategy.kind = "threshold" =>
                \A i \in 1..Len(result.position) :
                    result.position[i] # 0 =>
                        \E k \in 1..Len(a.signal) :
                            /\ a.signal[k] = Some(1)
                            /\ a.timestamp[k] + timeframe <= result.timestamp[i]

(***************************************************************************)
(* Claims on the sinks                                                     *)
(***************************************************************************)
\* the stored frame of sym holds exactly one row per timestamp ever written,
\* in strictly ascending order
StoredIsSortedDedup(sym) ==
    sym \in DOMAIN store =>
        /\ TsOf(store[sym]) = everTs[sym]
        /\ Len(store[sym]) = Cardinality(everTs[sym])
        /\ StrictlyAscending(store[sym])

\* writing again a chunk whose rows are stored leaves the stored frame as it is
RewriteLeavesFrame(sym) ==
    sym \in DOMAIN store =>
        \A df \in Chunks :
            RowsOf(df) \subseteq RowsOf(store[sym]) =>
                WriteOutcomes(sinkKind, store, sym, df) = {store[sym]}

\* C3: for every sink and every symbol, after any sequence of writes the
\* stored frame holds exactly one row for each distinct timestamp that occurs
\* in any written chunk, in strictly ascending timestamp order (so that
\* writing a chunk twice stores what writing it once stores).
C3_StoredIsSortedDedup == \A sym \in Symbols : StoredIsSortedDedup(sym)

\* the statement of C3 restricted to LocalFileSink, whose write does not go
\* through a read that can fail silently
LocalSinkStoredIsSortedDedup ==
    sinkKind = "local" =>
        \A sym \in Symbols : StoredIsSortedDedup(sym) /\ RewriteLeavesFrame(sym)

\* two overlapping chunks were written to one symbol of the local sink
LocalSinkMergedWitness ==
    /\ sinkKind = "local"
    /\ "A" \in DOMAIN store /\ Len(store["A"]) = MaxTs
    /\ "B" \in DOMAIN store /\ Len(store["B"]) = 1

\* a step of an object-store sink keeps every stored timestamp
ObjectStoreKeepsTimestamps ==
    sinkKind \in {"cloudflare_r2", "oracle_object_storage"} =>
        \A sym \in DOMAIN store : TsOf(store[sym]) \subseteq TsOf(store'[sym])

\* C35: a write to an object-store sink loses no stored row: the timestamps
\* stored for a symbol only grow from write to write, also when the read
\* inside write fails.
C35_StoredTimestampsOnlyGrow == [][ObjectStoreKeepsTimestamps]_vars

(***************************************************************************)
(* Claims about IngestOrchestrator.sync, checked under SpecSync.           *)
(***************************************************************************)
Count(lg, name) == Cardinality({i \in 1..Len(lg) : lg[i][1] = name})

Positions(lg, names) == {i \in 1..Len(lg) : lg[i][1] \in names}

LastOf(lg) == lg[Len(lg)]

\* C4: an exception raised while one symbol is processed, wherever it
\* arises (resume lookup, chunk counting, source stream, sink.write), makes
\* fetch_symbol report complete_symbol(success=false) and return false
\* without re-raising, and no other task is cancelled by it.
C4_FailureIsContained ==
    \A t \in DOMAIN task :
        task[t].exc # "none" =>
            /\ task[t].pc = "done"
            /\ task[t].ret = <<FALSE>>
            /\ task[t].log # <<>>
            /\ LastOf(task[t].log) = <<"complete_symbol", 0>>
            /\ \A u \in DOMAIN task : task[u].pc # "cancelled"

\* C6: whenever sync has finished, source.close() has been invoked exactly
\* once, also after the surrounding async context manager has been left,
\* and no close ran while a per-symbol task was unfinished.
C6_CloseExactlyOnce ==
    /\ spc \in {"returned", "raised"} => closeCalls = 1
    /\ ~closeWhileBusy

\* C7: at every moment of sync the number of fetch_symbol calls in progress
\* is at most `concurrency`.
C7_AtMostConcurrencyFetching ==
    Cardinality(Fetching) <= concurrency

C7_Witness ==
    /\ spc = "scope"
    /\ Cardinality(Fetching) = concurrency
    /\ Waiting # {}

\* C8: no two tasks are fetching the same symbol at the same time, whatever
\* table list_instruments returned.
C8_OneFetchPerSymbol ==
    \A t \in Fetching : \A u \in Fetching :
        t # u => SymbolOf(t) # SymbolOf(u)

\* the k-th item of a stream is consumed k-th, and a non-empty chunk is
\* handed to sink.write before the next item is requested
ChunksInOrderWrittenAtOnce(lg) ==
    /\ \A i \in Positions(lg, {"data", "empty"}) :
           /\ lg[i][2] = Cardinality({j \in Positions(lg, {"data", "empty"}) : j <= i})
           /\ i > 1 /\ lg[i - 1] = <<"req", lg[i][2]>>
    /\ \A i \in Positions(lg, {"data"}) :
           i < Len(lg) /\ lg[i + 1] = <<"write", lg[i][2]>>
    /\ \A i \in Positions(lg, {"write"}) :
           i > 1 /\ lg[i - 1] = <<"data", lg[i][2]>>
    /\ \A i \in Positions(lg, {"update"}) :
           i > 1 /\ lg[i - 1] = <<"write", lg[i][2]>>

\* C9 (as stated): within one fetch_symbol call chunks are consumed in
\* stream order, each non-empty chunk is written before the next request,
\* and the number of sink.write calls and the number of progress updates
\* both equal the number of non-empty chunks yielded.
C9_WritesAndUpdatesEqualChunks ==
    \A t \in DOMAIN task :
        LET lg == task[t].log
        IN /\ ChunksInOrderWrittenAtOnce(lg)
           /\ Count(lg, "write") = Count(lg, "data")
           /\ Count(lg, "update") = Count(lg, "data")

\* C9 (amended): as above, except that the number of progress updates
\* equals the number of sink.write calls that returned normally: a write
\* that raises ends the fetch and is followed by no update.
C9_UpdatesEqualSuccessfulWrites ==
    \A t \in DOMAIN task :
        LET lg == task[t].log
            failed == IF task[t].exc = "write" THEN 1 ELSE 0
        IN /\ ChunksInOrderWrittenAtOnce(lg)
           /\ Count(lg, "write") = Count(lg, "data")
           /\ Count(lg, "update") = Count(lg, "write") - failed
           /\ \A i \in Positions(lg, {"write"}) :
                  \/ i < Len(lg) /\ lg[i + 1] = <<"update", lg[i][2]>>
                  \/ /\ task[t].exc = "write"
                     /\ i + 1 = Len(lg)
                     /\ lg[i + 1] = <<"complete_symbol", 0>>

C9_Witness ==
    \E t \in DOMAIN task :
        /\ task[t].exc = "write"
        /\ Count(task[t].log, "write") = 2
        /\ Count(task[t].log, "update") = 1

\* the rows that pass the symbol filter and the limit
PassedFilterAndLimit ==
    HeadRowsWhenGiven(IF symbolsArg # {} THEN FilterBySymbols(listed, symbolsArg)
                      ELSE listed,
                      limitArg)

\* C10: sync returns only after every task has finished; the returned map
\* has, for each instrument that passed the filter and the limit, its
\* symbol mapped to what fetch_symbol returned for it; with limit L it has
\* at most L entries, and it is empty when no instrument matched.
C10_ResultsMap ==
    spc = "returned" =>
        /\ Unfinished = {}
        /\ DOMAIN results =
               {PassedFilterAndLimit[i].tradingsymbol : i \in 1..Len(PassedFilterAndLimit)}
        /\ \A t \in DOMAIN task : task[t].ret = <<results[SymbolOf(t)]>>
        /\ limitArg # <<>> => Cardinality(DOMAIN results) <= limitArg[1]
        /\ PassedFilterAndLimit = <<>> => results = <<>>


(***************************************************************************)
(* Claims about resume, checked under SpecResume.                          *)
(***************************************************************************)
StoredFrame == IF ResumeSymbol \in DOMAIN store THEN store[ResumeSymbol] ELSE <<>>

\* what a sequence of windows leaves in a sink whose reads succeed
RECURSIVE WriteWindows(_, _)
WriteWindows(windows, stored) ==
    IF windows = <<>> THEN stored
    ELSE LET chunk_df == SourceBars(Head(windows)[1], Head(windows)[2])
         IN WriteWindows(Tail(windows),
                         IF chunk_df = <<>> THEN stored
                         ELSE CHOOSE f \in UniqueSort(stored \o chunk_df) : TRUE)

\* one fetch_symbol call on day `end` against an empty sink
SingleShotFrame(end) ==
    IF DefaultStart >= end THEN <<>>
    ELSE WriteWindows(ChunkWindows(DefaultStart, end, chunk_days), <<>>)

\* C5: after the symbol has been fetched and then fetched again later, the
\* later call resuming from the date of the last stored timestamp, the
\* stored frame is the frame a single fetch up to the later day leaves in an
\* empty sink.
C5_ResumeEqualsSingleShot ==
    (rpc = "ready" /\ runs >= 2 /\ resumed) => StoredFrame = SingleShotFrame(end_date)

\* the same for the local file sink alone
LocalSinkResumeEqualsSingleShot ==
    (sinkKind = "local" /\ rpc = "ready" /\ runs >= 1) =>
        StoredFrame = SingleShotFrame(end_date)


(***************************************************************************)
(* Claims about the RateLimiter, checked under SpecRate.                   *)
(***************************************************************************)
\* the shortest interval [a, a + L) of a whole number of ticks, at least one
\* token time long, that holds the completions i..j
ShortestInterval(i, j) == Max(OneToken, completions[j] - completions[i] + 1)

\* C11: over every interval at least 1/r long the completions per second
\* are at most r * (1 + epsilon), here with epsilon = 1/10: the completions
\* i..j, counted in half tokens, are at most 11/10 of the ticks of the
\* interval, whatever idle time came before.
C11_RateBounded ==
    \A i \in 1..Len(completions) : \A j \in i..Len(completions) :
        (j - i + 1) * OneToken * 10 <= 11 * ShortestInterval(i, j)

\* at no instant do more calls complete than the bucket holds whole tokens
BurstWithinCapacity ==
    \A i \in 1..Len(completions) :
        Cardinality({j \in 1..Len(completions) : completions[j] = completions[i]})
            * OneToken <= max_tokens

\* C12: ten calls made at the same instant on a fresh limiter of rate 2.5/s
\* have all completed no earlier than 3 s and no later than 4 s afterwards.
C12_TenCallsTakeThreeToFourSeconds ==
    rmode = "burst" =>
        /\ Len(completions) = TenCalls =>
               /\ completions[TenCalls] >= Seconds(3)
               /\ completions[TenCalls] <= Seconds(4)
        /\ now > Seconds(4) => Len(completions) = TenCalls

C12_Witness ==
    /\ rmode = "burst"
    /\ Len(completions) = TenCalls
    /\ completions[TenCalls] = Seconds(3)
    /\ now > Seconds(4)


\* C29: a caller starts its refill-check-sleep-consume sequence only while
\* no other caller is inside its own, every completed wait() takes exactly
\* one token from a value of at least one token, and tokens stays within
\* 0..capacity.
C29_WaitIsExclusive ==
    /\ [](rmode # "idle" => (tokens >= 0 /\ tokens <= max_tokens))
    /\ [][/\ queued' < queued => lock = "free"
          /\ Len(completions') > Len(completions) =>
                \E held \in {tokens, Refill(tokens, now - updated_at)} :
                    held >= OneToken /\ tokens' = held - OneToken]_vars

\* a caller sleeps inside wait() while another is queued on the lock, after
\* earlier calls have completed
C29_Witness ==
    /\ rmode = "free"
    /\ lock = "sleeping"
    /\ queued > 0
    /\ Len(completions) > 0

(***************************************************************************)
(* Claims about the EventBus (SpecBus) and EventEngine.run (SpecEngine).   *)
(***************************************************************************)
\* events leave the queue in the order they were published
HandledInPublishOrder ==
    /\ handled = [i \in 1..Len(handled) |-> i]
    /\ _queue = SubSeq(published, Len(handled) + 1, Len(published))

\* a step that handles an event removes exactly the head of the queue,
\* calls the listeners of its type in subscription order, and leaves what
\* was queued in front of everything published meanwhile
HandlesHeadOnly ==
    Len(handled') > Len(handled) =>
        LET event == Head(_queue)
            subs  == _listeners[event.type]
        IN /\ handled' = Append(handled, event.id)
           /\ calls' = calls \o [i \in 1..Len(subs) |->
                                   [listener |-> subs[i], pos |-> i, id |-> event.id]]
           /\ Len(_queue') >= Len(_queue) - 1
           /\ SubSeq(_queue', 1, Len(_queue) - 1) = Tail(_queue)

\* C13: the bus handles events in exactly the order they were published;
\* process_next removes one event and calls every listener of its type in
\* subscription order; an event published during handling goes behind all
\* events already queued.
C13_Fifo == [](HandledInPublishOrder) /\ [][HandlesHeadOnly]_vars

C13_Witness ==
    /\ epc = "bus"
    /\ Len(handled) >= 1
    /\ \E k \in 2..Len(_queue) : _queue[k].cause # 0 /\ _queue[k - 1].cause = 0
    /\ \E i \in 1..Len(calls) : calls[i].pos = 2

PositionIn(seq, x) == CHOOSE i \in 1..Len(seq) : seq[i] = x

WasHandled(id) == \E i \in 1..Len(handled) : handled[i] = id

\* every event going back to an earlier bar is handled before a source
\* event of a later bar is
EarlierBarsHandledFirst ==
    \A m \in 1..Len(published) : \A e \in 1..Len(published) :
        (published[m].cause = 0 /\ WasHandled(m) /\ published[e].bar < published[m].bar)
            => WasHandled(e) /\ PositionIn(handled, e) < PositionIn(handled, m)

\* once run has returned every source event has been given once to every
\* MarketEvent subscriber
EachBarToEachSubscriberOnce ==
    epc = "returned" =>
        /\ pulled = source
        /\ \A k \in 1..source :
              \E m \in 1..Len(published) :
                 /\ published[m].cause = 0 /\ published[m].bar = k
                 /\ \A p \in 1..Len(_listeners["MarketEvent"]) :
                        Cardinality({i \in 1..Len(calls) :
                                        calls[i].id = m /\ calls[i].pos = p}) = 1

\* C14: run pulls a source event only when the queue is empty, handles
\* everything a bar caused before the next bar is seen, leaves the queue
\* empty on return, and gives each MarketEvent once to each subscriber.
C14_DrainBeforeNextBar ==
    /\ [](EarlierBarsHandledFirst)
    /\ [](EachBarToEachSubscriberOnce)
    /\ [](epc = "returned" => _queue = <<>>)
    /\ [][pulled' > pulled => _queue = <<>>]_vars

C14_Witness ==
    /\ epc = "returned"
    /\ source = 2
    /\ _listeners["MarketEvent"] # <<>>
    /\ \E e \in 1..Len(published) : published[e].cause # 0 /\ published[e].bar = 1


(***************************************************************************)
(* Further claims on the vector backtest, checked under SpecVector.        *)
(***************************************************************************)
\* C15: in the multi-timeframe vector path, when the analysis signal first
\* becomes 1 on the bar labelled H and at least two execution bars lie at or
\* after H + tf, a trade is reported and the first reported trade is a buy
\* at or after H + tf.
C15_FirstTradeAfterSignalBar ==
    (vpc = "backtest_done" /\ timeframe > 1 /\ result.ok) =>
        LET a == AnalysisResult(data)
        IN \A k \in 1..Len(a.signal) :
              (/\ a.signal[k] = Some(1)
               /\ \A j \in 1..(k - 1) : a.signal[j] # Some(1)
               /\ Cardinality({i \in 1..Len(result.timestamp) :
                      result.timestamp[i] >= a.timestamp[k] + timeframe}) >= 2)
              => /\ Trades(result) # {}
                 /\ LET first == CHOOSE i \in Trades(result) :
                                     \A j \in Trades(result) : i <= j
                    IN /\ result.timestamp[first] >= a.timestamp[k] + timeframe
                       /\ result.position[first] = 1


(***************************************************************************)
(* Claims about ZerodhaSource.fetch, checked under SpecZerodha.            *)
(***************************************************************************)
\* C16: when _fetch_chunk gives up on a window (retries exhausted or a
\* non-success body), the source requests no further window for the symbol
\* and the fetch is reported as failed.
C16_FailedChunkStopsFetch ==
    \A k \in 1..Len(chunkLog) :
        chunkLog[k].outcome = "none" =>
            /\ k = Len(chunkLog)
            /\ zpc = "returned" => fetch_result = <<>>


\* the windows fetch has requested are in increasing order and disjoint, and
\* none is longer than chunk_days
WindowsOrderedAndBounded ==
    /\ \A k \in 1..Len(chunkLog) :
          /\ chunkLog[k].from <= chunkLog[k].to
          /\ chunkLog[k].to - chunkLog[k].from <= fetch_chunk_days
    /\ \A k \in 1..(Len(chunkLog) - 1) : chunkLog[k].to < chunkLog[k + 1].from

\* C36: for a start date before the end date, the windows fetch requests
\* are increasing, disjoint, at most chunk_days long, and once fetch has
\* returned they hold every date from the start through the end date.
C36_WindowsCoverRange ==
    start_dt < end_dt =>
        /\ WindowsOrderedAndBounded
        /\ zpc = "returned" =>
              \A day \in start_dt..end_dt :
                  \E k \in 1..Len(chunkLog) :
                      chunkLog[k].from <= day /\ day <= chunkLog[k].to

\* the answers after which _fetch_chunk goes round its loop again
Retried == {"429", "client_error"}

ReturnedResults == response[1].results

\* a >= b on floats
IsGe(a, b) == a # NaN /\ b # NaN /\ a >= b

\* C17: the results of a scan are in non-increasing order of the number
\* parsed from "Total Return", a missing or unparsable value counting as 0,
\* whatever mix of cached, fresh and failed results the scan produced.
C17_ResultsSortedByReturn ==
    scpc = "returned" =>
        \A i \in 1..(Len(ReturnedResults) - 1) :
            IsGe(ExtractReturn(ReturnedResults[i].metrics),
                 ExtractReturn(ReturnedResults[i + 1].metrics))

C19_RoundTrip ==
    (/\ lastOp.op = "get"
     /\ lastOp.prevSet # Null
     /\ SortedSymbols(lastOp.prevSet[1].symbols) = SortedSymbols(lastOp.symbols)
     /\ lastOp.prevSet[1].data.size_mb <= max_size_mb)
        => lastOp.returned = Some(lastOp.prevSet[1].data)

\* a frame was set under <<"A", "B">> and read back under <<"B", "A">>
C19_Witness ==
    /\ lastOp.op = "get"
    /\ lastOp.prevSet # Null
    /\ lastOp.prevSet[1].symbols = <<"A", "B">>
    /\ lastOp.symbols = <<"B", "A">>
    /\ lastOp.returned = Some(lastOp.prevSet[1].data)

\* the sizes of the entries held add up to at most max_size_mb
SizeWithinCap ==
    /\ SizeSum(_cache) <= max_size_mb
    /\ _current_size_mb = SizeSum(_cache)
    /\ \A i \in 1..Len(_cache) : _sizes[_cache[i].key] = _cache[i].data.size_mb

C21_CacheFailureIsSwallowed ==
    /\ dpc = "raised" => providerData = Null
    /\ (dpc = "returned" /\ cacheFault # "none") => returned = providerData

(***************************************************************************)
(* Claims about loading market data, checked under SpecLoad.               *)
(***************************************************************************)
\* a row that meets the OHLC invariants
OhlcValid(r) == NoNulls(r) /\ PricesPositive(r) /\ IntegrityHolds(r)

\* C22: a load returns exactly the rows that meet the OHLC invariants, in
\* their order, and fails when no row is left.
C22_InvalidRowsDroppedEmptyFails ==
    (lpc = "loaded" /\ fileExists) =>
        LET valid == SelectSeq(fileRows, OhlcValid)
        IN IF valid = <<>> THEN loadResult = Null ELSE loadResult = Some(valid)

\* the same for LocalFileProvider.load, as far as rows are left
ProviderDropsInvalidRows ==
    (lpc = "loaded" /\ fileExists /\ loaderKind = "LocalFileProvider") =>
        loadResult = Some(SelectSeq(fileRows, OhlcValid))

(***************************************************************************)
(* Claims about the built-in strategies, checked under SpecStrategies.     *)
(***************************************************************************)
\* the most recent non-null trigger at or before row T, 0 when there is none
LatestTrigger(trigger, T) ==
    LET seen == {i \in 1..T : trigger[i] # Null}
    IN IF seen = {} THEN 0
       ELSE trigger[CHOOSE i \in seen : \A j \in seen : j <= i][1]

\* C23: generate_signals of a built-in strategy keeps the number of rows,
\* its signal is 0 or 1 at every row, and for the trigger-based strategies
\* the signal at row T is the latest non-null trigger at or before T, or 0.
C23_SignalIsLatchedTrigger ==
    vpc = "signals_done" =>
        /\ Len(result.signal) = Len(data.close)
        /\ \A T \in 1..Len(result.signal) : result.signal[T] \in {0, 1}
        /\ strategy.kind # "sma" =>
              \A T \in 1..Len(result.signal) :
                  result.signal[T] = LatestTrigger(result.trigger, T)

\* a trigger of 1 is held over a later row without trigger, then released
C23_Witness ==
    /\ vpc = "signals_done"
    /\ strategy.kind # "sma"
    /\ \E T \in 2..Len(result.signal) :
          /\ result.trigger[T] = Null /\ result.signal[T] = 1
          /\ \E U \in (T + 1)..Len(result.signal) : result.signal[U] = 0

(***************************************************************************)
(* Claims about the PortfolioManager and the event loop, checked under     *)
(* SpecTrade.                                                              *)
(***************************************************************************)
\* the stop-loss test with the boundary included
StopLossHitInclusive(rp, close, p) ==
    /\ IsOpen(p) /\ p.quantity > 0
    /\ (close - p.avg_entry_price) * 100 <= (0 - rp.stop_loss_pct) * p.avg_entry_price

\* C24: on a bar that meets an open long position, on_bar publishes one
\* MARKET SELL for the whole position when the loss is at or beyond
\* stop_loss_pct, the boundary included, and nothing otherwise.
C24_StopLossAtThreshold ==
    (last_dispatch.event.type = "market" /\ last_dispatch.position.quantity > 0) =>
        last_dispatch.published =
            IF StopLossHitInclusive(RiskParams(trade_params), last_dispatch.event.price,
                                    last_dispatch.position)
            THEN <<OrderEvent("SELL", last_dispatch.position.quantity)>>
            ELSE <<>>

\* C25: no BUY order is published whose quantity times the last price
\* exceeds the cash.
C25_BuyOrderWithinCash ==
    (last_dispatch.event.type = "signal" /\ last_prices # Null) =>
        \A i \in 1..Len(last_dispatch.published) :
            last_dispatch.published[i].kind = "BUY" =>
                last_dispatch.published[i].quantity * last_prices[1] <= last_dispatch.cash

\* C26: a SELL fill of q at p with commission c adds q*p - c to the cash and
\* (p - avg_entry)*q - c to realized_pnl, takes exactly q off the quantity,
\* and resets avg_entry_price when the quantity is zero.
C26_SellFillBookkeeping ==
    (last_dispatch.event.type = "fill" /\ last_dispatch.event.kind = "SELL") =>
        LET e      == last_dispatch.event
            before == last_dispatch.position
        IN /\ cash = last_dispatch.cash + e.quantity * e.price - e.commission
           /\ holding.realized_pnl =
                 before.realized_pnl
                    + (e.price - before.avg_entry_price) * e.quantity - e.commission
           /\ holding.quantity = before.quantity - e.quantity
           /\ holding.quantity = 0 => holding.avg_entry_price = 0

\* C27: the position quantity is the BUY fills minus the SELL fills, and the
\* quantity sold never exceeds the quantity bought.
C27_QuantityIsBuysMinusSells ==
    tpc = "run" => (holding.quantity = bought - sold /\ sold <= bought)

\* C28: once the cascade of a bar is drained, the RSI strategy's flag is 1
\* exactly when the portfolio holds an open position.
C28_FlagMatchesPosition ==
    (tpc = "run" /\ trade_params.strategy = "rsi" /\ bus_queue = <<>>) =>
        (rsi_strategy.flag = 1 <=> IsOpen(holding))

\* the events one event can still lead to, itself included: a fill to none,
\* an order to a fill, a signal to an order, a bar to a signal and a stop order
CascadeWeight(event) ==
    CASE event.type = "fill" -> 1
      [] event.type = "order" -> 2
      [] event.type = "signal" -> 3
      [] OTHER -> 6

QueueWeight == SumOver([i \in 1..Len(bus_queue) |-> CascadeWeight(bus_queue[i])],
                       1, Len(bus_queue))

\* C31: the cascade of one bar is finite: every process_next lowers the
\* number of events the queue can still lead to, which is at most 6 for a
\* bar, and a queue that is not empty is drained.
C31_CascadeIsFinite ==
    /\ [](QueueWeight <= CascadeWeight(MarketEvent(0, 0)))
    /\ [][bus_queue # <<>> =>
             SumOver([i \in 1..Len(bus_queue') |-> CascadeWeight(bus_queue'[i])],
                     1, Len(bus_queue')) < QueueWeight]_vars
    /\ (bus_queue # <<>>) ~> (bus_queue = <<>>)

\* the longest cascade: a stop-loss order and an EXIT signal from one bar,
\* both filled
C31_Witness ==
    /\ Len(bus_queue) = 2
    /\ bus_queue[1].type = "fill" /\ bus_queue[2].type = "fill"

(***************************************************************************)
(* Claims about PortfolioManager.on_fill, checked under SpecFill.          *)
(***************************************************************************)
\* C32: a BUY fill of q at p with commission c takes q*p + c off the cash,
\* adds q to the quantity of the symbol, makes avg_entry_price the
\* cost-weighted mean, and leaves the positions of the other symbols alone.
C32_BuyFillBookkeeping ==
    (fpc = "filled" /\ fill_event.event.kind = "BUY") =>
        LET e      == fill_event.event
            sym    == fill_event.symbol
            before == GetPosition(fill_before[1].positions, sym)
            after  == fill_positions[sym]
        IN /\ fill_cash = fill_before[1].cash - (e.quantity * e.price + e.commission)
           /\ after.quantity = before.quantity + e.quantity
           /\ after.avg_entry_price * after.quantity =
                 before.avg_entry_price * before.quantity + e.price * e.quantity
           /\ \A s \in FillSymbols \ {sym} :
                 /\ s \in DOMAIN fill_positions <=> s \in DOMAIN fill_before[1].positions
                 /\ s \in DOMAIN fill_positions =>
                       fill_positions[s] = fill_before[1].positions[s]

\* a BUY fill added to an open position at another price, with another
\* symbol held
C32_Witness ==
    /\ fpc = "filled" /\ fill_event.event.kind = "BUY"
    /\ LET sym    == fill_event.symbol
           before == GetPosition(fill_before[1].positions, sym)
       IN /\ before.quantity > 0
          /\ before.avg_entry_price # fill_event.event.price
          /\ \E s \in FillSymbols \ {sym} :
                s \in DOMAIN fill_positions /\ fill_positions[s].quantity > 0

(***************************************************************************)
(* Claims about VolumeAwareExecutionHandler, checked under SpecExec.       *)
(***************************************************************************)
\* C33: a BUY fill is priced at or below the high of the latest bar seen, a
\* SELL fill at or above its low, before any bar too.
C33_FillWithinBarRange ==
    fill_out # Null =>
        /\ fill_out[1].kind = "BUY" => fill_out[1].price <= handler.last_high
        /\ fill_out[1].kind = "SELL" => fill_out[1].price >= handler.last_low

\* C34: a filled LIMIT BUY is priced at or below its limit, a filled LIMIT
\* SELL at or above it.
C34_LimitPriceRespected ==
    (fill_out # Null /\ order_seen[1].order_type = "LIMIT"
        /\ order_seen[1].limit_price # 0) =>
        /\ order_seen[1].direction = "BUY" => fill_out[1].price <= order_seen[1].limit_price
        /\ order_seen[1].direction = "SELL" =>
              fill_out[1].price >= order_seen[1].limit_price

\* the symbols of the request that have a live successful row
LiveCached ==
    {x \in SeqRange(scan_symbols) :
        /\ x \in DOMAIN cacheRows
        /\ cacheRows[x].expires_at > scan_now
        /\ cacheRows[x].status = "success"}

\* a live row is served as it is, marked cached, and not backtested
ServedFromRow(x) ==
    /\ x \notin SeqRange(symbols_to_compute)
    /\ \E i \in 1..Len(cached_results) :
          cached_results[i] = ScanResult(x, cacheRows[x].metrics, "cached", Null, TRUE)

\* the cached results reach the response unchanged
CachedResultsReturned ==
    scpc = "returned" =>
        \A i \in 1..Len(cached_results) :
            \E k \in 1..Len(ReturnedResults) : ReturnedResults[k] = cached_results[i]

\* the store step changes the rows of the successful fresh results only, to
\* the fresh metrics with expires_at = now + TTL, and keeps every other row
StoreWritesFreshSuccessOnly ==
    (scpc = "gather" /\ scpc' = "returned") =>
        /\ DOMAIN cacheRows \subseteq DOMAIN cacheRows'
        /\ \A x \in DOMAIN cacheRows' :
              \/ x \in DOMAIN cacheRows /\ cacheRows'[x] = cacheRows[x]
              \/ \E i \in 1..Len(fresh_results) :
                    /\ fresh_results[i][1].symbol = x
                    /\ fresh_results[i][1].status = "success"
                    /\ cacheRows'[x] = CacheRow(fresh_results[i][1].metrics,
                                                scan_now' + ScanCacheTtlHours, "success")

\* C38 as stated: with a cache database, a symbol with a row whose
\* expires_at > now and status is success is returned from that row, marked
\* cached, and not backtested; every other symbol is backtested; only fresh
\* results with status success are written, with expires_at = now + TTL.
C38_CacheHitSkipsBacktest ==
    /\ []((scpc = "gather" /\ has_db) =>
            /\ \A x \in LiveCached : ServedFromRow(x)
            /\ SeqRange(symbols_to_compute) = SeqRange(scan_symbols) \ LiveCached)
    /\ []CachedResultsReturned
    /\ [][StoreWritesFreshSuccessOnly]_vars

\* C38, amended: the same, provided the cache lookup does not fail; when
\* it fails no row is used and every symbol is backtested.
C38_CacheHitSkipsBacktestUnlessReadFails ==
    /\ []((scpc = "gather" /\ has_db /\ ~cache_read_failed) =>
            /\ \A x \in LiveCached : ServedFromRow(x)
            /\ SeqRange(symbols_to_compute) = SeqRange(scan_symbols) \ LiveCached)
    /\ []((scpc = "gather" /\ cache_read_failed) =>
            /\ cached_results = <<>>
            /\ symbols_to_compute = scan_symbols)
    /\ []CachedResultsReturned
    /\ [][StoreWritesFreshSuccessOnly]_vars

\* a scan that served one symbol from its row, stored a fresh success and
\* had a failed backtest, returned
C38_Witness ==
    /\ scpc = "returned" /\ has_db /\ ~cache_read_failed
    /\ cached_results # <<>>
    /\ \E i \in 1..Len(fresh_results) : fresh_results[i][1].status = "error"
    /\ \E i \in 1..Len(fresh_results) :
          /\ fresh_results[i][1].status = "success"
          /\ fresh_results[i][1].symbol \in DOMAIN cacheRows
          /\ cacheRows[fresh_results[i][1].symbol]
                = CacheRow(fresh_results[i][1].metrics, scan_now + ScanCacheTtlHours, "success")

(***************************************************************************)
(* Claims about progress reporting of sync, checked under SpecSync.        *)
(***************************************************************************)
\* ProgressTracker._completed_symbols: one increment per complete_symbol
RECURSIVE CompletedSymbols(_)
CompletedSymbols(n) ==
    IF n = 0 THEN 0
    ELSE Count(task[n].log, "complete_symbol") + CompletedSymbols(n - 1)

\* no path of fetch_symbol reports a symbol twice
CompleteSymbolAtMostOnce ==
    \A t \in DOMAIN task : Count(task[t].log, "complete_symbol") <= 1

C40_GetAfterSetIsNeverStale ==
    (/\ lastOp.op = "get"
     /\ lastOp.prevSet # Null
     /\ SortedSymbols(lastOp.prevSet[1].symbols) = SortedSymbols(lastOp.symbols))
        => lastOp.returned \in {Null, Some(lastOp.prevSet[1].data)}

(***************************************************************************)
(* Claims about PostgresCache, checked under SpecPg.                       *)
(***************************************************************************)
\* get does not return a row that expired before now; without a database
\* error the expired row is deleted and a miss is counted; a hit moves
\* last_accessed_at to now
PgGetHonoursExpiry ==
    pg_last.op = "get" =>
        /\ pg_last.returned # <<>> =>
              /\ pg_last.key \notin PgExpired(pg_last.before, pg_last.at)
              /\ pg_rows[pg_last.key].last_accessed_at = pg_last.at
        /\ (pg_last.key \in PgExpired(pg_last.before, pg_last.at) /\ ~pg_last.failed) =>
              /\ pg_last.returned = <<>>
              /\ pg_last.key \notin DOMAIN pg_rows
              /\ pg_misses = pg_last.misses + 1

\* a set that stores its entry leaves no row that had expired
PgSetDeletesExpired ==
    (pg_last.op = "set" /\ pg_last.stored) =>
        PgExpired(pg_last.before, pg_last.at) \cap DOMAIN pg_rows \subseteq {pg_last.key}

\* the rows a set evicts for room were accessed no later than the rows it keeps
PgSetEvictsOldestFirst ==
    (pg_last.op = "set" /\ pg_last.stored) =>
        \A gone \in (DOMAIN pg_last.before \ DOMAIN pg_rows)
                        \ PgExpired(pg_last.before, pg_last.at) :
            \A kept \in DOMAIN pg_rows \ {pg_last.key} :
                pg_last.before[gone].last_accessed_at <= pg_last.before[kept].last_accessed_at

\* after a set that stores its entry the table is within max_size_mb
PgSetMakesRoom ==
    (pg_last.op = "set" /\ pg_last.stored) => PgTotalSize(pg_rows) <= pg_max

\* C39: get never returns an entry whose expires_at lies before now (the row
\* is deleted and a miss is counted) and a hit moves last_accessed_at to
\* now; set deletes all expired entries and then evicts in ascending
\* last_accessed_at order until the new entry fits within max_size_mb.
C39_ExpiryAndLruEviction ==
    /\ PgGetHonoursExpiry
    /\ PgSetDeletesExpired
    /\ PgSetEvictsOldestFirst
    /\ PgSetMakesRoom

====
